---- MODULE Spec2Model ----
(***************************************************************************)
(* The ownership-scoped data-access layer of the lifting diary: the four   *)
(* tables of the schema, the data functions of src/data (workouts, sets,   *)
(* exercises), the statements each of them issues against the store, and   *)
(* the server actions that call them.                                      *)
(*                                                                         *)
(* Six specifications run the same statements.  Spec is serialized         *)
(* execution: one call at a time, each call running all of its statements  *)
(* before the next call starts.  SpecWorkouts is the workouts module with  *)
(* every name and time.  SpecDelete is Spec together with the              *)
(* deleteWorkout helper that docs/data-mutations.md documents.             *)
(* SpecConcurrent interleaves the statements of two calls.  SpecActions    *)
(* sends every request through its server action: auth, schema, data       *)
(* function, revalidatePath, result.  SpecDashboard is the dashboard of    *)
(* one browser, fetching the workouts of the day its calendar selects.     *)
(***************************************************************************)
EXTENDS Integers, Sequences, FiniteSets, TLC

\* ------------------------------------------------------------------ bounds

\* Rows inserted over a run: in each table, and in the three together.
MaxWorkouts == 2

MaxWorkoutExercises == 3

MaxSets == 3

MaxRows == 5

\* Rows inserted over a run of concurrent requests.
MaxConcurrentRows == 4

\* Clock ticks in a calendar day (a day of 86 400 000 ms scaled down).
TicksPerDay == 2

\* The calendar of the dashboard shows the days 0 .. MaxDay.
MaxDay == 2

\* getWorkoutsForDate calls a browser keeps open at a time.
MaxCalls == 2

\* ------------------------------------------------------------ input values

Users == {"u1", "u2"}

Names == {"Leg Day", "Push"}

\* Start of day 0, end of day 0, start of day 1.
Times == {0, TicksPerDay - 1, TicksPerDay}

\* The readings `new Date()` gives while the data functions run.
Clock == {TicksPerDay}

\* A string that is parsed is the sequence of its characters.
Str135 == <<"1", "3", "5">>

Str145 == <<"1", "4", "5">>

\* (reps, weight) as a caller passes them: createSet and updateSet take both.
SetInputs == {[reps |-> 8, weight |-> Str135], [reps |-> 6, weight |-> Str145]}

\* Ids a caller may pass: every id the serial column of the table can have
\* handed out, so also ids of rows that do not exist (yet, or any more).
WorkoutIds == 1 .. MaxWorkouts

WorkoutExerciseIds == 1 .. MaxWorkoutExercises

SetIds == 1 .. MaxSets

\* `null`, `undefined` and a thrown store error, as results of a call.
NULL == [null |-> TRUE]

UNDEFINED == [undefined |-> TRUE]

THROWN == [error |-> "store"]

\* --------------------------------------------------------------- the store

\* The exercise catalog.  No data function writes it.
exercises == {[id |-> 5, name |-> "Squat"]}

\* Exercise ids a caller may pass: the catalog's, and one that is not in it.
ExerciseIds == {e.id : e \in exercises} \cup {6}

VARIABLES
    workouts,          \* table workouts
    workoutExercises,  \* table workout_exercises
    sets,              \* table sets
    seq,               \* next value of each serial id column
    proc,              \* each request: idle, between two statements, or returned
    createdBy,         \* history: workout id -> the userId createWorkout was given
    inserted,          \* history: every row ever inserted in workout_exercises and sets
    response,          \* each request made through a server action: what the action did
    dashboard,         \* DashboardClient: the state of the mounted component
    calls              \* getWorkoutsForDate calls the component made, not yet settled

vars == <<workouts, workoutExercises, sets, seq, proc, createdBy, inserted, response,
          dashboard, calls>>

\* What the server's requests leave alone: the browser's side.
client == <<dashboard, calls>>

store == <<workouts, workoutExercises, sets>>

\* Request slots; a request takes the first free one.
Procs == {1, 2}

FreeSlot(p) == proc[p].pc = "idle" /\ \A q \in Procs : q < p => proc[q].pc # "idle"

Idle == [pc |-> "idle"]

Done(op, ret) == [pc |-> "done", op |-> op, ret |-> ret]

\* A returned delete, with the rows its statement removed by cascade (history).
DoneDelete(op, ret, cascaded) ==
    [pc |-> "done", op |-> op, ret |-> ret, cascaded |-> cascaded]

\* No server action has run for the request.
NoResponse == [pending |-> TRUE]

\* Serialized execution: a call starts when no other call is in flight.
Serial(p) == FreeSlot(p) /\ \A q \in Procs : proc[q] = Idle

RowsLeft == seq.workouts + seq.workoutExercises + seq.sets - 3 < MaxRows

ConcurrentRowsLeft ==
    seq.workouts + seq.workoutExercises + seq.sets - 3 < MaxConcurrentRows

\* The baselines of the two sequencing helpers: `?? 0` and `?? -1`.
SetNumberBaseline == 0

OrderBaseline == -1

\* ----------------------------------------------------- numbers and strings

DigitValue ==
    [c \in {"0", "1", "2", "3", "4", "5", "6", "7", "8", "9"} |->
        CASE c = "0" -> 0 [] c = "1" -> 1 [] c = "2" -> 2 [] c = "3" -> 3
          [] c = "4" -> 4 [] c = "5" -> 5 [] c = "6" -> 6 [] c = "7" -> 7
          [] c = "8" -> 8 [] c = "9" -> 9]

IsDigit(c) == c \in DOMAIN DigitValue

\* The number a run of decimal digits denotes, and the digits of a number.
RECURSIVE DecimalValue(_)
DecimalValue(digits) ==
    IF digits = <<>> THEN 0
    ELSE 10 * DecimalValue(SubSeq(digits, 1, Len(digits) - 1))
            + DigitValue[digits[Len(digits)]]

RECURSIVE DecimalDigits(_)
DecimalDigits(n) ==
    LET last == CHOOSE c \in DOMAIN DigitValue : DigitValue[c] = n % 10
    IN  IF n < 10 THEN <<last>> ELSE Append(DecimalDigits(n \div 10), last)

\* Where the digits of a string start (after a sign, if it has one) and how
\* many digits follow one another there.
SignLength(str) == IF str # <<>> /\ str[1] = "-" THEN 1 ELSE 0

DigitRun(str) ==
    LET from == SignLength(str) + 1
    IN  CHOOSE n \in 0 .. Len(str) :
            /\ from + n - 1 <= Len(str)
            /\ \A k \in from .. from + n - 1 : IsDigit(str[k])
            /\ from + n <= Len(str) => ~IsDigit(str[from + n])

\* JavaScript parseFloat: the number the longest numeric prefix of the string
\* denotes, whatever follows it; NaN when there is no such prefix.
NaN == [nan |-> TRUE]

parseFloat(str) ==
    LET from == SignLength(str) + 1
        n == DigitRun(str)
        magnitude == DecimalValue(SubSeq(str, from, from + n - 1))
    IN  IF n = 0 THEN NaN
        ELSE [nan |-> FALSE,
              value |-> IF SignLength(str) = 1 THEN 0 - magnitude ELSE magnitude]

isNaN(x) == x.nan

\* The store's numeric column type.  Its input accepts a string that is a
\* number from end to end and refuses every other; its output is the number
\* written in canonical form, which is what the driver hands back.
NumericAccepts(str) ==
    DigitRun(str) > 0 /\ SignLength(str) + DigitRun(str) = Len(str)

Numeric(str) ==
    LET value == parseFloat(str).value
    IN  IF value < 0 THEN <<"-">> \o DecimalDigits(0 - value) ELSE DecimalDigits(value)

\* --------------------------------------------------------------- date-fns

startOfDay(t) == (t \div TicksPerDay) * TicksPerDay

endOfDay(t) == startOfDay(t) + TicksPerDay - 1

\* ------------------------------------------------------ query building blocks

\* Every arrangement of the rows of S as a sequence.
Arrangements(S) ==
    {q \in [1 .. Cardinality(S) -> S] : \A i, j \in DOMAIN q : i # j => q[i] # q[j]}

\* SELECT ... ORDER BY column: the rows of S in ascending order of the
\* column.  SQL leaves the order of rows with equal values open, so this is
\* every sequence the store may answer with.
OrderBy(S, column) ==
    {q \in Arrangements(S) : \A i, j \in DOMAIN q : i < j => q[i][column] <= q[j][column]}

\* SELECT max(col): the greatest element of a non-empty set of numbers.
Max(S) == CHOOSE m \in S : \A x \in S : x <= m

\* ------------------------------------------------------- src/data/workouts.ts

getWorkoutsByUserId(userId) ==
    OrderBy({w \in workouts : w.userId = userId}, "startedAt")

\* getWorkoutsByUserIdAndDate with lt in place of lte.
getWorkoutsBeforeDayEnd(userId, date) ==
    LET dayStart == startOfDay(date)
        dayEnd == endOfDay(date)
    IN  OrderBy({w \in workouts : /\ w.userId = userId
                                  /\ w.startedAt >= dayStart
                                  /\ w.startedAt < dayEnd},
                "startedAt")

getWorkoutsByUserIdAndDate(userId, date) ==
    LET dayStart == startOfDay(date)
        dayEnd == endOfDay(date)
    IN  OrderBy({w \in workouts : /\ w.userId = userId
                                  /\ w.startedAt >= dayStart
                                  /\ w.startedAt <= dayEnd},
                "startedAt")

\* ------------------------------------------------ src/app/dashboard/page.tsx

\* The signed-in user whose dashboard is open.
Viewer == "u1"

\* The component as it mounts: useState(initialDate), useState(initialWorkouts),
\* useTransition() and useState(false).  fetchedFor is history: the date the
\* list in `workouts` was fetched for.
DashboardClient(initialWorkouts, initialDate) ==
    [date |-> initialDate, workouts |-> initialWorkouts, isPending |-> FALSE,
     isPopoverOpen |-> FALSE, url |-> <<>>, fetchedFor |-> initialDate]

\* The page without a date parameter: selectedDate is `new Date()`, and the
\* component mounts with the signed-in user's workouts of that day.
InitialDate == CHOOSE now \in Clock : TRUE

Init ==
    /\ workouts = {}
    /\ workoutExercises = {}
    /\ sets = {}
    /\ seq = [workouts |-> 1, workoutExercises |-> 1, sets |-> 1]
    /\ proc = [p \in Procs |-> Idle]
    /\ createdBy = <<>>
    /\ inserted = [workoutExercises |-> {}, sets |-> {}]
    /\ response = [p \in Procs |-> NoResponse]
    /\ \E initialWorkouts \in getWorkoutsByUserIdAndDate(Viewer, InitialDate) :
            dashboard = DashboardClient(initialWorkouts, InitialDate)
    /\ calls = <<>>

\* ------------------------------------------ src/data/workouts.ts (continued)

\* SelectWorkout without the userId condition.
SelectWorkoutOfAnyUser(workoutId, userId) ==
    {w \in workouts : w.id = workoutId}

\* The rows of `select().from(workouts).where(and(eq(id), eq(userId)))`.
SelectWorkout(workoutId, userId) ==
    {w \in workouts : w.id = workoutId /\ w.userId = userId}

getWorkoutById(workoutId, userId) ==
    LET result == SelectWorkout(workoutId, userId)
    IN  IF result = {} THEN NULL ELSE CHOOSE w \in result : TRUE

InsertWorkout(userId, name, startedAt, now) ==
    [id |-> seq.workouts, userId |-> userId, name |-> name, startedAt |-> startedAt,
     completedAt |-> NULL, createdAt |-> now, updatedAt |-> now]

\* The insert statement of createWorkout, issued by request p.
InsertWorkoutRow(p, userId, name, startedAt) ==
    /\ RowsLeft /\ seq.workouts <= MaxWorkouts
    /\ \E now \in Clock :
        LET workout == InsertWorkout(userId, name, startedAt, now)
        IN  /\ workouts' = workouts \cup {workout}
            /\ seq' = [seq EXCEPT !.workouts = @ + 1]
            /\ createdBy' = (workout.id :> userId) @@ createdBy
            /\ proc' = [proc EXCEPT ![p] = Done("createWorkout", workout)]
    /\ UNCHANGED <<workoutExercises, sets, inserted>>

createWorkout(p, userId, name, startedAt) ==
    /\ Serial(p)
    /\ InsertWorkoutRow(p, userId, name, startedAt)

\* A set clause that writes every key, an omitted name as the empty string
\* and an omitted startedAt as time 0.
SetWorkoutWithOmittedKeys(w, data, now) ==
    [w EXCEPT !.name = IF "name" \in DOMAIN data THEN data.name ELSE "",
              !.startedAt = IF "startedAt" \in DOMAIN data THEN data.startedAt ELSE 0,
              !.updatedAt = now]

\* A set clause that also writes the userId column.
SetWorkoutAndUserId(w, data, now) ==
    [w EXCEPT !.name = IF "name" \in DOMAIN data THEN data.name ELSE @,
              !.startedAt = IF "startedAt" \in DOMAIN data THEN data.startedAt ELSE @,
              !.userId = CHOOSE u \in Users : u # @,
              !.updatedAt = now]

\* `.set({...data, updatedAt: new Date()})`: a key that data does not carry
\* (or carries as undefined) leaves its column alone.
SetWorkout(w, data, now) ==
    [w EXCEPT !.name = IF "name" \in DOMAIN data THEN data.name ELSE @,
              !.startedAt = IF "startedAt" \in DOMAIN data THEN data.startedAt ELSE @,
              !.updatedAt = now]

\* data: { name?: string; startedAt?: Date }
UpdateData ==
    [name : Names, startedAt : Times] \cup [name : Names] \cup [startedAt : Times]
        \cup {[x \in {} |-> x]}

\* The update statement of updateWorkout, issued by request p.
UpdateWorkoutRow(p, workoutId, userId, data) ==
    /\ \E now \in Clock :
        LET hit == SelectWorkout(workoutId, userId)
            updated == {SetWorkout(w, data, now) : w \in hit}
        IN  /\ workouts' = (workouts \ hit) \cup updated
            /\ proc' = [proc EXCEPT ![p] =
                   Done("updateWorkout",
                        IF updated = {} THEN NULL ELSE CHOOSE w \in updated : TRUE)]
    /\ UNCHANGED <<workoutExercises, sets, seq, createdBy, inserted>>

updateWorkout(p, workoutId, userId, data) ==
    /\ Serial(p)
    /\ UpdateWorkoutRow(p, workoutId, userId, data)

\* ----------------------------------------------------- src/data/sets.ts

getSetsByWorkoutExercise(workoutExerciseId) ==
    OrderBy({s \in sets : s.workoutExerciseId = workoutExerciseId},
            "setNumber")

\* SelectWorkoutExercise without the userId condition.
SelectWorkoutExerciseOfAnyUser(workoutExerciseId, userId) ==
    {we \in workoutExercises : we.id = workoutExerciseId}

\* workoutExercises innerJoin workouts, where workoutExercises.id and
\* workouts.userId are the given ones.
SelectWorkoutExercise(workoutExerciseId, userId) ==
    {we \in workoutExercises :
        /\ we.id = workoutExerciseId
        /\ \E w \in workouts : w.id = we.workoutId /\ w.userId = userId}

\* SelectSet without the userId condition.
SelectSetOfAnyUser(setId, userId) ==
    {s \in sets : s.id = setId}

\* sets innerJoin workoutExercises innerJoin workouts, where sets.id and
\* workouts.userId are the given ones.
SelectSet(setId, userId) ==
    {s \in sets :
        /\ s.id = setId
        /\ \E we \in workoutExercises :
            /\ we.id = s.workoutExerciseId
            /\ \E w \in workouts : w.id = we.workoutId /\ w.userId = userId}

\* NextSetNumber without the + 1.
MaxSetNumberOrBaseline(workoutExerciseId) ==
    LET numbers == {s.setNumber : s \in {x \in sets : x.workoutExerciseId = workoutExerciseId}}
    IN  IF numbers = {} THEN SetNumberBaseline ELSE Max(numbers)

\* The next number taken from a count of the sets, not from their max.
NextSetNumberByCount(workoutExerciseId) ==
    Cardinality({s \in sets : s.workoutExerciseId = workoutExerciseId}) + 1

\* (maxSetResult[0]?.maxSet ?? 0) + 1
NextSetNumber(workoutExerciseId) ==
    LET numbers == {s.setNumber : s \in {x \in sets : x.workoutExerciseId = workoutExerciseId}}
    IN  (IF numbers = {} THEN SetNumberBaseline ELSE Max(numbers)) + 1

\* The insert with no foreign key on workoutExerciseId.
InsertSetUnchecked(p, workoutExerciseId, nextSetNumber, reps, weight) ==
    /\ RowsLeft /\ seq.sets <= MaxSets
    /\ \E now \in Clock :
        LET set == [id |-> seq.sets, workoutExerciseId |-> workoutExerciseId,
                    setNumber |-> nextSetNumber, reps |-> reps,
                    weight |-> Numeric(weight), createdAt |-> now]
        IN  IF NumericAccepts(weight)
            THEN /\ sets' = sets \cup {set}
                 /\ seq' = [seq EXCEPT !.sets = @ + 1]
                 /\ inserted' = [inserted EXCEPT !.sets = @ \cup
                        {[id |-> set.id, workoutExerciseId |-> workoutExerciseId,
                          setNumber |-> nextSetNumber]}]
                 /\ proc' = [proc EXCEPT ![p] = Done("createSet", set)]
            ELSE /\ UNCHANGED <<sets, seq, inserted>>
                 /\ proc' = [proc EXCEPT ![p] = Done("createSet", THROWN)]
    /\ UNCHANGED <<workouts, workoutExercises, createdBy>>

\* The insert statement of createSet, issued by request p.  The foreign key
\* refuses a row whose workout exercise is gone, the numeric column a weight
\* that is not a number, and the statement throws.
InsertSet(p, workoutExerciseId, nextSetNumber, reps, weight) ==
    /\ RowsLeft /\ seq.sets <= MaxSets
    /\ \E now \in Clock :
        LET set == [id |-> seq.sets, workoutExerciseId |-> workoutExerciseId,
                    setNumber |-> nextSetNumber, reps |-> reps,
                    weight |-> Numeric(weight), createdAt |-> now]
        IN  IF /\ NumericAccepts(weight)
               /\ \E we \in workoutExercises : we.id = workoutExerciseId
            THEN /\ sets' = sets \cup {set}
                 /\ seq' = [seq EXCEPT !.sets = @ + 1]
                 /\ inserted' = [inserted EXCEPT !.sets = @ \cup
                        {[id |-> set.id, workoutExerciseId |-> workoutExerciseId,
                          setNumber |-> nextSetNumber]}]
                 /\ proc' = [proc EXCEPT ![p] = Done("createSet", set)]
            ELSE /\ UNCHANGED <<sets, seq, inserted>>
                 /\ proc' = [proc EXCEPT ![p] = Done("createSet", THROWN)]
    /\ UNCHANGED <<workouts, workoutExercises, createdBy>>

createSet(p, workoutExerciseId, reps, weight, userId) ==
    /\ Serial(p)
    /\ LET workoutExercise == SelectWorkoutExercise(workoutExerciseId, userId)
       IN  IF workoutExercise = {}
           THEN /\ proc' = [proc EXCEPT ![p] = Done("createSet", NULL)]
                /\ UNCHANGED <<workouts, workoutExercises, sets, seq, createdBy, inserted>>
           ELSE InsertSet(p, workoutExerciseId, NextSetNumber(workoutExerciseId),
                          reps, weight)

\* An update that also writes createdAt.
UpdateSetRowAndCreatedAt(p, setId, reps, weight) ==
    LET hit == {s \in sets : s.id = setId}
        updated == {[s EXCEPT !.reps = reps, !.weight = Numeric(weight),
                              !.createdAt = @ + 1] : s \in hit}
    IN  /\ IF NumericAccepts(weight)
           THEN /\ sets' = (sets \ hit) \cup updated
                /\ proc' = [proc EXCEPT ![p] =
                       Done("updateSet",
                            IF updated = {} THEN UNDEFINED
                            ELSE CHOOSE s \in updated : TRUE)]
           ELSE /\ UNCHANGED sets
                /\ proc' = [proc EXCEPT ![p] = Done("updateSet", THROWN)]
        /\ UNCHANGED <<workouts, workoutExercises, seq, createdBy, inserted>>

\* An update of the reps column alone.
UpdateSetRowRepsOnly(p, setId, reps, weight) ==
    LET hit == {s \in sets : s.id = setId}
        updated == {[s EXCEPT !.reps = reps] : s \in hit}
    IN  /\ sets' = (sets \ hit) \cup updated
        /\ proc' = [proc EXCEPT ![p] =
               Done("updateSet",
                    IF updated = {} THEN UNDEFINED ELSE CHOOSE s \in updated : TRUE)]
        /\ UNCHANGED <<workouts, workoutExercises, seq, createdBy, inserted>>

\* The update statement of updateSet: `[updatedSet] = ... returning()` is
\* undefined when no row has the id any more.  The numeric column refuses a
\* weight that is not a number, and the statement throws.
UpdateSetRow(p, setId, reps, weight) ==
    LET hit == {s \in sets : s.id = setId}
        updated == {[s EXCEPT !.reps = reps, !.weight = Numeric(weight)] : s \in hit}
    IN  /\ IF NumericAccepts(weight)
           THEN /\ sets' = (sets \ hit) \cup updated
                /\ proc' = [proc EXCEPT ![p] =
                       Done("updateSet",
                            IF updated = {} THEN UNDEFINED
                            ELSE CHOOSE s \in updated : TRUE)]
           ELSE /\ UNCHANGED sets
                /\ proc' = [proc EXCEPT ![p] = Done("updateSet", THROWN)]
        /\ UNCHANGED <<workouts, workoutExercises, seq, createdBy, inserted>>

updateSet(p, setId, reps, weight, userId) ==
    /\ Serial(p)
    /\ LET setRecord == SelectSet(setId, userId)
       IN  IF setRecord = {}
           THEN /\ proc' = [proc EXCEPT ![p] = Done("updateSet", NULL)]
                /\ UNCHANGED <<workouts, workoutExercises, sets, seq, createdBy, inserted>>
           ELSE UpdateSetRow(p, setId, reps, weight)

\* A delete that closes the gap: the sets after the deleted one move down.
DeleteSetRowAndRenumber(p, setId) ==
    LET hit == {s \in sets : s.id = setId}
        After(s) == \E h \in hit :
                        /\ s.workoutExerciseId = h.workoutExerciseId
                        /\ s.setNumber > h.setNumber
    IN  /\ sets' = {IF After(s) THEN [s EXCEPT !.setNumber = @ - 1] ELSE s :
                        s \in sets \ hit}
        /\ proc' = [proc EXCEPT ![p] =
               Done("deleteSet",
                    IF hit = {} THEN UNDEFINED ELSE CHOOSE s \in hit : TRUE)]
        /\ UNCHANGED <<workouts, workoutExercises, seq, createdBy, inserted>>

\* The delete statement of deleteSet.
DeleteSetRow(p, setId) ==
    LET hit == {s \in sets : s.id = setId}
    IN  /\ sets' = sets \ hit
        /\ proc' = [proc EXCEPT ![p] =
               Done("deleteSet",
                    IF hit = {} THEN UNDEFINED ELSE CHOOSE s \in hit : TRUE)]
        /\ UNCHANGED <<workouts, workoutExercises, seq, createdBy, inserted>>

deleteSet(p, setId, userId) ==
    /\ Serial(p)
    /\ LET setRecord == SelectSet(setId, userId)
       IN  IF setRecord = {}
           THEN /\ proc' = [proc EXCEPT ![p] = Done("deleteSet", NULL)]
                /\ UNCHANGED <<workouts, workoutExercises, sets, seq, createdBy, inserted>>
           ELSE DeleteSetRow(p, setId)

\* -------------------------------------------------- src/data/exercises.ts

getAllExercises == OrderBy(exercises, "name")

\* workoutExercises innerJoin exercises, where workoutExercises.workoutId is
\* the given one: the selected columns of each pair of rows.
JoinExercises(workoutId) ==
    {[id |-> we.id, workoutId |-> we.workoutId, exerciseId |-> we.exerciseId,
      order |-> we.order, exerciseName |-> e.name, createdAt |-> we.createdAt] :
        <<we, e>> \in {x \in workoutExercises \X exercises :
                          x[1].exerciseId = x[2].id /\ x[1].workoutId = workoutId}}

\* SetColumns without the workoutExerciseId condition.
SetColumnsOfAll(workoutExerciseId) ==
    {[id |-> s.id, setNumber |-> s.setNumber, reps |-> s.reps, weight |-> s.weight,
      createdAt |-> s.createdAt] : s \in sets}

\* The selected columns of the sets of one workout exercise.
SetColumns(workoutExerciseId) ==
    {[id |-> s.id, setNumber |-> s.setNumber, reps |-> s.reps, weight |-> s.weight,
      createdAt |-> s.createdAt] :
        s \in {x \in sets : x.workoutExerciseId = workoutExerciseId}}

\* { ...workoutExercise, sets: exerciseSets }, for every order the store may
\* give the sets in.
WithSets(workoutExercise) ==
    {[id |-> workoutExercise.id, workoutId |-> workoutExercise.workoutId,
      exerciseId |-> workoutExercise.exerciseId, order |-> workoutExercise.order,
      exerciseName |-> workoutExercise.exerciseName,
      createdAt |-> workoutExercise.createdAt, sets |-> exerciseSets] :
        exerciseSets \in OrderBy(SetColumns(workoutExercise.id), "setNumber")}

\* An array a call returns where it may also return null.
Array(q) == [array |-> q]

\* Every result the call may give: null alone, or the arrays the two ordered
\* queries allow.
getWorkoutExercisesWithSets(workoutId, userId) ==
    LET workout == SelectWorkout(workoutId, userId)
        joined == JoinExercises(workoutId)
    IN  IF workout = {}
        THEN {NULL}
        ELSE UNION {
                {Array(exercisesWithSets) : exercisesWithSets \in
                    {f \in [DOMAIN workoutExerciseData ->
                                UNION {WithSets(x) : x \in joined}] :
                        \A i \in DOMAIN workoutExerciseData :
                            f[i] \in WithSets(workoutExerciseData[i])}} :
                workoutExerciseData \in OrderBy(joined, "order")}

\* src/data/workouts.ts: the workout with its exercises, or null.
getWorkoutWithExercises(workoutId, userId) ==
    LET workout == getWorkoutById(workoutId, userId)
        rows == {[id |-> x.id, order |-> x.order, exerciseId |-> x.exerciseId,
                  exerciseName |-> x.exerciseName] : x \in JoinExercises(workoutId)}
    IN  IF workout = NULL
        THEN {NULL}
        ELSE {[workout |-> workout, exercises |-> workoutExerciseData] :
                workoutExerciseData \in OrderBy(rows, "order")}

\* NextOrder with the baseline of the set numbers.
NextOrderFromSetBaseline(workoutId) ==
    LET orders == {we.order : we \in {x \in workoutExercises : x.workoutId = workoutId}}
    IN  (IF orders = {} THEN SetNumberBaseline ELSE Max(orders)) + 1

\* The order without the max query: the baseline plus one.
NextOrderWithoutMax(workoutId) == OrderBaseline + 1

\* (maxOrderResult[0]?.maxOrder ?? -1) + 1
NextOrder(workoutId) ==
    LET orders == {we.order : we \in {x \in workoutExercises : x.workoutId = workoutId}}
    IN  (IF orders = {} THEN OrderBaseline ELSE Max(orders)) + 1

\* The insert with no foreign key on exerciseId or workoutId.
InsertWorkoutExerciseUnchecked(p, workoutId, exerciseId, nextOrder) ==
    /\ RowsLeft /\ seq.workoutExercises <= MaxWorkoutExercises
    /\ \E now \in Clock :
        LET workoutExercise ==
                [id |-> seq.workoutExercises, workoutId |-> workoutId,
                 exerciseId |-> exerciseId, order |-> nextOrder, createdAt |-> now]
        IN  /\ workoutExercises' = workoutExercises \cup {workoutExercise}
            /\ seq' = [seq EXCEPT !.workoutExercises = @ + 1]
            /\ inserted' = [inserted EXCEPT !.workoutExercises = @ \cup
                   {[id |-> workoutExercise.id, workoutId |-> workoutId,
                     order |-> nextOrder]}]
            /\ proc' = [proc EXCEPT ![p] =
                   Done("addExerciseToWorkout", workoutExercise)]
    /\ UNCHANGED <<workouts, sets, createdBy>>

\* The insert statement of addExerciseToWorkout, issued by request p.  Both
\* foreign keys are checked; a refused insert throws.
InsertWorkoutExercise(p, workoutId, exerciseId, nextOrder) ==
    /\ RowsLeft /\ seq.workoutExercises <= MaxWorkoutExercises
    /\ \E now \in Clock :
        LET workoutExercise ==
                [id |-> seq.workoutExercises, workoutId |-> workoutId,
                 exerciseId |-> exerciseId, order |-> nextOrder, createdAt |-> now]
        IN  IF /\ \E w \in workouts : w.id = workoutId
               /\ \E e \in exercises : e.id = exerciseId
            THEN /\ workoutExercises' = workoutExercises \cup {workoutExercise}
                 /\ seq' = [seq EXCEPT !.workoutExercises = @ + 1]
                 /\ inserted' = [inserted EXCEPT !.workoutExercises = @ \cup
                        {[id |-> workoutExercise.id, workoutId |-> workoutId,
                          order |-> nextOrder]}]
                 /\ proc' = [proc EXCEPT ![p] =
                        Done("addExerciseToWorkout", workoutExercise)]
            ELSE /\ UNCHANGED <<workoutExercises, seq, inserted>>
                 /\ proc' = [proc EXCEPT ![p] = Done("addExerciseToWorkout", THROWN)]
    /\ UNCHANGED <<workouts, sets, createdBy>>

addExerciseToWorkout(p, workoutId, exerciseId, userId) ==
    /\ Serial(p)
    /\ LET workout == SelectWorkout(workoutId, userId)
       IN  IF workout = {}
           THEN /\ proc' = [proc EXCEPT ![p] = Done("addExerciseToWorkout", NULL)]
                /\ UNCHANGED <<workouts, workoutExercises, sets, seq, createdBy, inserted>>
           ELSE InsertWorkoutExercise(p, workoutId, exerciseId, NextOrder(workoutId))

\* The sets foreign key without onDelete cascade.
NoCascadeSets(deletedWorkoutExercises) == {}

\* sets.workoutExerciseId references workoutExercises.id, onDelete cascade.
CascadeSets(deletedWorkoutExercises) ==
    {s \in sets : \E we \in deletedWorkoutExercises : s.workoutExerciseId = we.id}

\* The delete statement of removeExerciseFromWorkout; the cascade deletes the
\* sets in the same statement.
DeleteWorkoutExerciseRow(p, workoutExerciseId) ==
    LET hit == {we \in workoutExercises : we.id = workoutExerciseId}
    IN  /\ workoutExercises' = workoutExercises \ hit
        /\ sets' = sets \ CascadeSets(hit)
        /\ proc' = [proc EXCEPT ![p] =
               DoneDelete("removeExerciseFromWorkout",
                          IF hit = {} THEN UNDEFINED ELSE CHOOSE we \in hit : TRUE,
                          CascadeSets(hit))]
        /\ UNCHANGED <<workouts, seq, createdBy, inserted>>

removeExerciseFromWorkout(p, workoutExerciseId, userId) ==
    /\ Serial(p)
    /\ LET workoutExercise == SelectWorkoutExercise(workoutExerciseId, userId)
       IN  IF workoutExercise = {}
           THEN /\ proc' = [proc EXCEPT ![p] = Done("removeExerciseFromWorkout", NULL)]
                /\ UNCHANGED <<workouts, workoutExercises, sets, seq, createdBy, inserted>>
           ELSE DeleteWorkoutExerciseRow(p, workoutExerciseId)

\* ------------------------------------------------- docs/data-mutations.md

\* The workoutId foreign key without onDelete cascade.
NoCascadeWorkoutExercises(deletedWorkouts) == {}

\* workoutExercises.workoutId references workouts.id, onDelete cascade.
CascadeWorkoutExercises(deletedWorkouts) ==
    {we \in workoutExercises : \E w \in deletedWorkouts : we.workoutId = w.id}

\* The documented delete helper: one delete statement on workouts, filtered
\* by id and userId; the schema's cascades run in the same statement.
deleteWorkout(p, workoutId, userId) ==
    /\ Serial(p)
    /\ LET hit == SelectWorkout(workoutId, userId)
           gone == CascadeWorkoutExercises(hit)
       IN  /\ workouts' = workouts \ hit
           /\ workoutExercises' = workoutExercises \ gone
           /\ sets' = sets \ CascadeSets(gone)
           /\ proc' = [proc EXCEPT ![p] =
                  DoneDelete("deleteWorkout",
                             IF hit = {} THEN UNDEFINED ELSE CHOOSE w \in hit : TRUE,
                             gone \cup CascadeSets(gone))]
    /\ UNCHANGED <<seq, createdBy, inserted>>

\* The caller takes the result; the request is over.
Return(p) ==
    /\ proc[p].pc = "done"
    /\ proc' = [proc EXCEPT ![p] = Idle]
    /\ UNCHANGED <<workouts, workoutExercises, sets, seq, createdBy, inserted>>

\* The workouts module alone, with every name and start time.
NextWorkouts ==
    \E p \in Procs :
        \/ \E u \in Users, n \in Names, t \in Times :
                /\ createWorkout(p, u, n, t)
                /\ UNCHANGED <<response, client>>
        \/ \E id \in WorkoutIds, u \in Users, d \in UpdateData :
                /\ updateWorkout(p, id, u, d)
                /\ UNCHANGED <<response, client>>
        \/ /\ Return(p)
           /\ UNCHANGED <<response, client>>

SpecWorkouts == Init /\ [][NextWorkouts]_vars

\* The name and start time the workouts of Next are created and updated with:
\* no function of the sets and exercises modules reads either column.
PlainName == "Leg Day"

PlainTime == TicksPerDay

PlainData ==
    {d \in UpdateData :
        /\ "name" \in DOMAIN d => d.name = PlainName
        /\ "startedAt" \in DOMAIN d => d.startedAt = PlainTime}

\* The three modules together.
Next ==
    \E p \in Procs :
        \/ \E u \in Users :
                /\ createWorkout(p, u, PlainName, PlainTime)
                /\ UNCHANGED <<response, client>>
        \/ \E id \in WorkoutIds, u \in Users, d \in PlainData :
                /\ updateWorkout(p, id, u, d)
                /\ UNCHANGED <<response, client>>
        \/ \E id \in WorkoutExerciseIds, i \in SetInputs, u \in Users :
                /\ createSet(p, id, i.reps, i.weight, u)
                /\ UNCHANGED <<response, client>>
        \/ \E id \in SetIds, i \in SetInputs, u \in Users :
                /\ updateSet(p, id, i.reps, i.weight, u)
                /\ UNCHANGED <<response, client>>
        \/ \E id \in SetIds, u \in Users :
                /\ deleteSet(p, id, u)
                /\ UNCHANGED <<response, client>>
        \/ \E id \in WorkoutIds, e \in ExerciseIds, u \in Users :
                /\ addExerciseToWorkout(p, id, e, u)
                /\ UNCHANGED <<response, client>>
        \/ \E id \in WorkoutExerciseIds, u \in Users :
                /\ removeExerciseFromWorkout(p, id, u)
                /\ UNCHANGED <<response, client>>
        \/ /\ Return(p)
           /\ UNCHANGED <<response, client>>

Spec == Init /\ [][Next]_vars

\* Building the tree under a workout and taking it down: the inserts, the
\* deletes of the three modules and the documented deleteWorkout.
NextDelete ==
    \E p \in Procs :
        \/ \E u \in Users :
                /\ createWorkout(p, u, PlainName, PlainTime)
                /\ UNCHANGED <<response, client>>
        \/ \E id \in WorkoutExerciseIds, i \in SetInputs, u \in Users :
                /\ createSet(p, id, i.reps, i.weight, u)
                /\ UNCHANGED <<response, client>>
        \/ \E id \in SetIds, u \in Users :
                /\ deleteSet(p, id, u)
                /\ UNCHANGED <<response, client>>
        \/ \E id \in WorkoutIds, e \in ExerciseIds, u \in Users :
                /\ addExerciseToWorkout(p, id, e, u)
                /\ UNCHANGED <<response, client>>
        \/ \E id \in WorkoutExerciseIds, u \in Users :
                /\ removeExerciseFromWorkout(p, id, u)
                /\ UNCHANGED <<response, client>>
        \/ \E id \in WorkoutIds, u \in Users :
                /\ deleteWorkout(p, id, u)
                /\ UNCHANGED <<response, client>>
        \/ /\ Return(p)
           /\ UNCHANGED <<response, client>>

SpecDelete == Init /\ [][NextDelete]_vars

\* ------------------------------------------------------ concurrent requests

\* Requests run concurrently: each call issues its statements one at a time,
\* awaiting each, and any statement of another request may run in between.
\* A request between two statements holds its arguments and what it has read.

\* createSet: the ownership query, then the max query, then the insert.
createSetVerify(p, workoutExerciseId, reps, weight, userId) ==
    /\ FreeSlot(p)
    /\ proc' = [proc EXCEPT ![p] =
           IF SelectWorkoutExercise(workoutExerciseId, userId) = {}
           THEN Done("createSet", NULL)
           ELSE [pc |-> "createSet:max", workoutExerciseId |-> workoutExerciseId,
                 reps |-> reps, weight |-> weight, userId |-> userId]]
    /\ UNCHANGED <<workouts, workoutExercises, sets, seq, createdBy, inserted>>

createSetMax(p) ==
    /\ proc[p].pc = "createSet:max"
    /\ proc' = [proc EXCEPT ![p] =
           [pc |-> "createSet:insert", workoutExerciseId |-> proc[p].workoutExerciseId,
            reps |-> proc[p].reps, weight |-> proc[p].weight, userId |-> proc[p].userId,
            nextSetNumber |-> NextSetNumber(proc[p].workoutExerciseId)]]
    /\ UNCHANGED <<workouts, workoutExercises, sets, seq, createdBy, inserted>>

createSetInsert(p) ==
    /\ proc[p].pc = "createSet:insert"
    /\ ConcurrentRowsLeft
    /\ InsertSet(p, proc[p].workoutExerciseId, proc[p].nextSetNumber,
                 proc[p].reps, proc[p].weight)

\* updateSet: the ownership query, then the update.
updateSetVerify(p, setId, reps, weight, userId) ==
    /\ FreeSlot(p)
    /\ proc' = [proc EXCEPT ![p] =
           IF SelectSet(setId, userId) = {}
           THEN Done("updateSet", NULL)
           ELSE [pc |-> "updateSet:update", setId |-> setId, reps |-> reps,
                 weight |-> weight, userId |-> userId]]
    /\ UNCHANGED <<workouts, workoutExercises, sets, seq, createdBy, inserted>>

updateSetUpdate(p) ==
    /\ proc[p].pc = "updateSet:update"
    /\ UpdateSetRow(p, proc[p].setId, proc[p].reps, proc[p].weight)

\* deleteSet: the ownership query, then the delete.
deleteSetVerify(p, setId, userId) ==
    /\ FreeSlot(p)
    /\ proc' = [proc EXCEPT ![p] =
           IF SelectSet(setId, userId) = {}
           THEN Done("deleteSet", NULL)
           ELSE [pc |-> "deleteSet:delete", setId |-> setId, userId |-> userId]]
    /\ UNCHANGED <<workouts, workoutExercises, sets, seq, createdBy, inserted>>

deleteSetDelete(p) ==
    /\ proc[p].pc = "deleteSet:delete"
    /\ DeleteSetRow(p, proc[p].setId)

\* addExerciseToWorkout: the ownership query, the max query, the insert.
addExerciseVerify(p, workoutId, exerciseId, userId) ==
    /\ FreeSlot(p)
    /\ proc' = [proc EXCEPT ![p] =
           IF SelectWorkout(workoutId, userId) = {}
           THEN Done("addExerciseToWorkout", NULL)
           ELSE [pc |-> "addExerciseToWorkout:max", workoutId |-> workoutId,
                 exerciseId |-> exerciseId, userId |-> userId]]
    /\ UNCHANGED <<workouts, workoutExercises, sets, seq, createdBy, inserted>>

addExerciseMax(p) ==
    /\ proc[p].pc = "addExerciseToWorkout:max"
    /\ proc' = [proc EXCEPT ![p] =
           [pc |-> "addExerciseToWorkout:insert", workoutId |-> proc[p].workoutId,
            exerciseId |-> proc[p].exerciseId, userId |-> proc[p].userId,
            nextOrder |-> NextOrder(proc[p].workoutId)]]
    /\ UNCHANGED <<workouts, workoutExercises, sets, seq, createdBy, inserted>>

addExerciseInsert(p) ==
    /\ proc[p].pc = "addExerciseToWorkout:insert"
    /\ ConcurrentRowsLeft
    /\ InsertWorkoutExercise(p, proc[p].workoutId, proc[p].exerciseId, proc[p].nextOrder)

\* removeExerciseFromWorkout: the ownership query, then the delete.
removeExerciseVerify(p, workoutExerciseId, userId) ==
    /\ FreeSlot(p)
    /\ proc' = [proc EXCEPT ![p] =
           IF SelectWorkoutExercise(workoutExerciseId, userId) = {}
           THEN Done("removeExerciseFromWorkout", NULL)
           ELSE [pc |-> "removeExerciseFromWorkout:delete",
                 workoutExerciseId |-> workoutExerciseId, userId |-> userId]]
    /\ UNCHANGED <<workouts, workoutExercises, sets, seq, createdBy, inserted>>

removeExerciseDelete(p) ==
    /\ proc[p].pc = "removeExerciseFromWorkout:delete"
    /\ DeleteWorkoutExerciseRow(p, proc[p].workoutExerciseId)

\* createWorkout and updateWorkout are one statement each.
createWorkoutStatement(p, userId, name, startedAt) ==
    /\ FreeSlot(p)
    /\ ConcurrentRowsLeft
    /\ InsertWorkoutRow(p, userId, name, startedAt)

updateWorkoutStatement(p, workoutId, userId, data) ==
    /\ FreeSlot(p)
    /\ UpdateWorkoutRow(p, workoutId, userId, data)

NextConcurrent ==
    \E p \in Procs :
        \/ \E u \in Users :
                /\ createWorkoutStatement(p, u, PlainName, PlainTime)
                /\ UNCHANGED <<response, client>>
        \/ \E id \in WorkoutIds, u \in Users, d \in PlainData :
                /\ updateWorkoutStatement(p, id, u, d)
                /\ UNCHANGED <<response, client>>
        \/ \E id \in WorkoutExerciseIds, i \in SetInputs, u \in Users :
                /\ createSetVerify(p, id, i.reps, i.weight, u)
                /\ UNCHANGED <<response, client>>
        \/ /\ createSetMax(p)
           /\ UNCHANGED <<response, client>>
        \/ /\ createSetInsert(p)
           /\ UNCHANGED <<response, client>>
        \/ \E id \in SetIds, i \in SetInputs, u \in Users :
                /\ updateSetVerify(p, id, i.reps, i.weight, u)
                /\ UNCHANGED <<response, client>>
        \/ /\ updateSetUpdate(p)
           /\ UNCHANGED <<response, client>>
        \/ \E id \in SetIds, u \in Users :
                /\ deleteSetVerify(p, id, u)
                /\ UNCHANGED <<response, client>>
        \/ /\ deleteSetDelete(p)
           /\ UNCHANGED <<response, client>>
        \/ \E id \in WorkoutIds, e \in ExerciseIds, u \in Users :
                /\ addExerciseVerify(p, id, e, u)
                /\ UNCHANGED <<response, client>>
        \/ /\ addExerciseMax(p)
           /\ UNCHANGED <<response, client>>
        \/ /\ addExerciseInsert(p)
           /\ UNCHANGED <<response, client>>
        \/ \E id \in WorkoutExerciseIds, u \in Users :
                /\ removeExerciseVerify(p, id, u)
                /\ UNCHANGED <<response, client>>
        \/ /\ removeExerciseDelete(p)
           /\ UNCHANGED <<response, client>>
        \/ /\ Return(p)
           /\ UNCHANGED <<response, client>>

SpecConcurrent == Init /\ [][NextConcurrent]_vars

\* ----------------------------------------------------------- server actions

\* What `await auth()` gives: a session with a userId, or one without.
Anonymous == [anonymous |-> TRUE]

Sessions == {[userId |-> u] : u \in Users} \cup {Anonymous}

SignedIn(session) == "userId" \in DOMAIN session

\* An id the schemas refuse, and one they accept.
BadId == 0

AnyId == 1

\* (reps, weight) a client may send that pass both schemas: a number, zero,
\* and a number followed by text.
ClientSets ==
    {[reps |-> 8, weight |-> Str135], [reps |-> 8, weight |-> <<"0">>],
     [reps |-> 8, weight |-> <<"5", "k", "g">>]}

\* (reps, weight) the schemas refuse: reps too small and too large, a
\* negative weight and a weight that is text.
BadSets ==
    {[reps |-> 0, weight |-> Str135], [reps |-> 1001, weight |-> Str135],
     [reps |-> 8, weight |-> <<"-", "5">>], [reps |-> 8, weight |-> <<"k", "g">>]}

\* What a client may send with an id of ids: every id with every input that
\* passes, and each refused value once.
ClientSetData(ids) ==
    (ids \X ClientSets) \cup ({BadId} \X {[reps |-> 8, weight |-> Str135]})
        \cup ({AnyId} \X BadSets)

\* Workout names a client may send.
ClientNames == {"", PlainName}

\* Date strings a client may send.  A date is written as its tick count;
\* Date.parse gives NaN for a string that is not a date.
ClientDates == {DecimalDigits(PlainTime), <<"k", "g">>}

DateParse(str) ==
    IF str # <<>> /\ \A k \in DOMAIN str : IsDigit(str[k])
    THEN [nan |-> FALSE, value |-> DecimalValue(str)]
    ELSE NaN

\* z.number().int().positive()
PositiveInt(n) == n > 0

\* z.number().int().positive().min(1).max(1000)
RepsSchema(reps) == reps > 0 /\ reps >= 1 /\ reps <= 1000

\* z.string().refine((val) => !isNaN(parseFloat(val)) && parseFloat(val) >= 0)
WeightSchema(weight) ==
    ~isNaN(parseFloat(weight)) /\ parseFloat(weight).value >= 0

\* z.string().min(1).max(100)
NameSchema(name) == Len(name) >= 1 /\ Len(name) <= 100

\* z.string().refine((date) => !isNaN(Date.parse(date)))
DateSchema(date) == ~isNaN(DateParse(date))

AddExerciseToWorkoutSchema(data) ==
    PositiveInt(data.workoutId) /\ PositiveInt(data.exerciseId)

RemoveExerciseFromWorkoutSchema(data) == PositiveInt(data.workoutExerciseId)

CreateSetSchema(data) ==
    /\ PositiveInt(data.workoutExerciseId)
    /\ RepsSchema(data.reps)
    /\ WeightSchema(data.weight)

UpdateSetSchema(data) ==
    PositiveInt(data.setId) /\ RepsSchema(data.reps) /\ WeightSchema(data.weight)

DeleteSetSchema(data) == PositiveInt(data.setId)

CreateWorkoutSchema(data) == NameSchema(data.name) /\ DateSchema(data.startedAt)

UpdateWorkoutSchema(data) ==
    /\ PositiveInt(data.workoutId)
    /\ "name" \in DOMAIN data => NameSchema(data.name)
    /\ "startedAt" \in DOMAIN data => DateSchema(data.startedAt)

\* The paths the actions hand to revalidatePath.  A template literal writes
\* the id in decimal; `/dashboard/workout/*` is the path with an asterisk
\* where the id would be.
ListingPath == [route |-> "/dashboard"]

DetailPath(workoutId) ==
    [route |-> "/dashboard/workout/", id |-> DecimalDigits(workoutId)]

AsteriskPath == [route |-> "/dashboard/workout/", id |-> <<"*">>]

\* `if (!record)`: null and undefined are falsy, a row is not.
Falsy(ret) == ret \in {NULL, UNDEFINED}

\* What an action did: the object it returned, the paths it revalidated and
\* the steps it went through, in order.
Responded(action, result, revalidated, steps) ==
    [action |-> action, result |-> result, revalidated |-> revalidated,
     steps |-> steps]

\* The refusal written after the cache has been touched.
UnauthorizedAfterRevalidate(p, action) ==
    /\ response' = [response EXCEPT ![p] =
           Responded(action, [error |-> "Unauthorized"], {ListingPath},
                     <<"auth", "revalidatePath">>)]
    /\ UNCHANGED <<workouts, workoutExercises, sets, seq, proc, createdBy, inserted>>

\* `return { error: 'Unauthorized' }` before anything else is done.
Unauthorized(p, action) ==
    /\ response' = [response EXCEPT ![p] =
           Responded(action, [error |-> "Unauthorized"], {}, <<"auth">>)]
    /\ UNCHANGED <<workouts, workoutExercises, sets, seq, proc, createdBy, inserted>>

\* Schema.parse(data) throws a ZodError; the catch block returns it.
InvalidInput(p, action) ==
    /\ response' = [response EXCEPT ![p] =
           Responded(action, [error |-> "Invalid input", details |-> "issues"], {},
                     <<"auth", "parse">>)]
    /\ UNCHANGED <<workouts, workoutExercises, sets, seq, proc, createdBy, inserted>>

\* The same with revalidatePath moved before the call of the data function.
AfterCallRevalidatingFirst(p, action, call, ret, notFound, failed, paths, success) ==
    response' = [response EXCEPT ![p] =
        IF ret = THROWN
        THEN Responded(action, [error |-> failed], paths,
                       <<"auth", "parse", "revalidatePath", call>>)
        ELSE IF Falsy(ret)
        THEN Responded(action, [error |-> notFound], paths,
                       <<"auth", "parse", "revalidatePath", call>>)
        ELSE Responded(action, success, paths,
                       <<"auth", "parse", "revalidatePath", call>>)]

\* The same without the falsy check: null goes on to revalidatePath.
AfterCallWithoutFalsyCheck(p, action, call, ret, notFound, failed, paths, success) ==
    response' = [response EXCEPT ![p] =
        IF ret = THROWN
        THEN Responded(action, [error |-> failed], {}, <<"auth", "parse", call>>)
        ELSE Responded(action, success, paths,
                       <<"auth", "parse", call, "revalidatePath">>)]

\* The same without a catch block: an error of the store reaches the caller.
AfterCallWithoutCatch(p, action, call, ret, notFound, failed, paths, success) ==
    response' = [response EXCEPT ![p] =
        IF ret = THROWN
        THEN Responded(action, THROWN, {}, <<"auth", "parse", call>>)
        ELSE IF Falsy(ret)
        THEN Responded(action, [error |-> notFound], {}, <<"auth", "parse", call>>)
        ELSE Responded(action, success, paths,
                       <<"auth", "parse", call, "revalidatePath">>)]

\* The rest of an action once its data function has returned ret or thrown:
\* the falsy check (where the action has one), revalidatePath, the result.
AfterCall(p, action, call, ret, notFound, failed, paths, success) ==
    response' = [response EXCEPT ![p] =
        IF ret = THROWN
        THEN Responded(action, [error |-> failed], {}, <<"auth", "parse", call>>)
        ELSE IF Falsy(ret)
        THEN Responded(action, [error |-> notFound], {}, <<"auth", "parse", call>>)
        ELSE Responded(action, success, paths,
                       <<"auth", "parse", call, "revalidatePath">>)]

\* A server action starts when no other request is being served.
ActionStarts(p) == Serial(p) /\ \A q \in Procs : response[q] = NoResponse

addExerciseToWorkoutAction(p, session, data) ==
    /\ ActionStarts(p)
    /\ IF ~SignedIn(session) THEN Unauthorized(p, "addExerciseToWorkoutAction")
       ELSE IF ~AddExerciseToWorkoutSchema(data)
       THEN InvalidInput(p, "addExerciseToWorkoutAction")
       ELSE /\ addExerciseToWorkout(p, data.workoutId, data.exerciseId, session.userId)
            /\ LET workoutExercise == proc'[p].ret
               IN  AfterCall(p, "addExerciseToWorkoutAction", "addExerciseToWorkout",
                             workoutExercise,
                             "Workout not found or unauthorized",
                             "Failed to add exercise to workout",
                             {DetailPath(data.workoutId)},
                             [success |-> TRUE, workoutExercise |-> workoutExercise])

removeExerciseFromWorkoutAction(p, session, data) ==
    /\ ActionStarts(p)
    /\ IF ~SignedIn(session) THEN Unauthorized(p, "removeExerciseFromWorkoutAction")
       ELSE IF ~RemoveExerciseFromWorkoutSchema(data)
       THEN InvalidInput(p, "removeExerciseFromWorkoutAction")
       ELSE /\ removeExerciseFromWorkout(p, data.workoutExerciseId, session.userId)
            /\ LET deleted == proc'[p].ret
               IN  AfterCall(p, "removeExerciseFromWorkoutAction",
                             "removeExerciseFromWorkout", deleted,
                             "Exercise not found or unauthorized",
                             "Failed to remove exercise from workout",
                             IF Falsy(deleted) THEN {}
                             ELSE {DetailPath(deleted.workoutId)},
                             [success |-> TRUE])

createSetAction(p, session, data) ==
    /\ ActionStarts(p)
    /\ IF ~SignedIn(session) THEN Unauthorized(p, "createSetAction")
       ELSE IF ~CreateSetSchema(data) THEN InvalidInput(p, "createSetAction")
       ELSE /\ createSet(p, data.workoutExerciseId, data.reps, data.weight,
                         session.userId)
            /\ LET set == proc'[p].ret
               IN  AfterCall(p, "createSetAction", "createSet", set,
                             "Exercise not found or unauthorized",
                             "Failed to create set",
                             {AsteriskPath},
                             [success |-> TRUE, set |-> set])

updateSetAction(p, session, data) ==
    /\ ActionStarts(p)
    /\ IF ~SignedIn(session) THEN Unauthorized(p, "updateSetAction")
       ELSE IF ~UpdateSetSchema(data) THEN InvalidInput(p, "updateSetAction")
       ELSE /\ updateSet(p, data.setId, data.reps, data.weight, session.userId)
            /\ LET set == proc'[p].ret
               IN  AfterCall(p, "updateSetAction", "updateSet", set,
                             "Set not found or unauthorized",
                             "Failed to update set",
                             {AsteriskPath},
                             [success |-> TRUE, set |-> set])

deleteSetAction(p, session, data) ==
    /\ ActionStarts(p)
    /\ IF ~SignedIn(session) THEN Unauthorized(p, "deleteSetAction")
       ELSE IF ~DeleteSetSchema(data) THEN InvalidInput(p, "deleteSetAction")
       ELSE /\ deleteSet(p, data.setId, session.userId)
            /\ LET deleted == proc'[p].ret
               IN  AfterCall(p, "deleteSetAction", "deleteSet", deleted,
                             "Set not found or unauthorized",
                             "Failed to delete set",
                             {AsteriskPath},
                             [success |-> TRUE])

\* createWorkoutAction has no falsy check: createWorkout returns the row.
createWorkoutAction(p, session, data) ==
    /\ ActionStarts(p)
    /\ IF ~SignedIn(session) THEN Unauthorized(p, "createWorkoutAction")
       ELSE IF ~CreateWorkoutSchema(data) THEN InvalidInput(p, "createWorkoutAction")
       ELSE /\ createWorkout(p, session.userId, data.name,
                             DateParse(data.startedAt).value)
            /\ LET workout == proc'[p].ret
               IN  response' = [response EXCEPT ![p] =
                       Responded("createWorkoutAction",
                                 [success |-> TRUE, workout |-> workout],
                                 {ListingPath},
                                 <<"auth", "parse", "createWorkout", "revalidatePath">>)]

\* The data the action hands to updateWorkout: name as validated, startedAt
\* as a Date when the client sent one (a key left undefined is no key).
UpdateWorkoutData(data) ==
    [k \in DOMAIN data \ {"workoutId"} |->
        IF k = "startedAt" THEN DateParse(data.startedAt).value ELSE data[k]]

updateWorkoutAction(p, session, data) ==
    /\ ActionStarts(p)
    /\ IF ~SignedIn(session) THEN Unauthorized(p, "updateWorkoutAction")
       ELSE IF ~UpdateWorkoutSchema(data) THEN InvalidInput(p, "updateWorkoutAction")
       ELSE /\ updateWorkout(p, data.workoutId, session.userId, UpdateWorkoutData(data))
            /\ LET workout == proc'[p].ret
               IN  AfterCall(p, "updateWorkoutAction", "updateWorkout", workout,
                             "Workout not found or unauthorized",
                             "Failed to update workout",
                             IF Falsy(workout) THEN {}
                             ELSE {ListingPath, DetailPath(workout.id)},
                             [success |-> TRUE, workout |-> workout])

\* The client takes the action's result; the request is over.
ReturnAction(p) ==
    /\ response[p] # NoResponse
    /\ response' = [response EXCEPT ![p] = NoResponse]
    /\ proc' = [proc EXCEPT ![p] = Idle]
    /\ UNCHANGED <<workouts, workoutExercises, sets, seq, createdBy, inserted>>

\* What a client may send to each action: every id with every input that
\* passes the schema, and each refused value once.
CreateWorkoutRequests == [name : ClientNames, startedAt : ClientDates]

UpdateWorkoutRequests ==
    UNION {[workoutId : {id}, name : {PlainName}, startedAt : {DecimalDigits(PlainTime)}]
            \cup [workoutId : {id}, name : {PlainName}]
            \cup [workoutId : {id}, startedAt : {DecimalDigits(PlainTime)}]
            \cup [workoutId : {id}] : id \in WorkoutIds}
        \cup {[workoutId |-> BadId], [workoutId |-> AnyId, name |-> ""],
              [workoutId |-> AnyId, startedAt |-> <<"k", "g">>]}

AddExerciseRequests == [workoutId : WorkoutIds \cup {BadId}, exerciseId : ExerciseIds]

RemoveExerciseRequests == [workoutExerciseId : WorkoutExerciseIds \cup {BadId}]

CreateSetRequests ==
    {[workoutExerciseId |-> d[1], reps |-> d[2].reps, weight |-> d[2].weight] :
        d \in ClientSetData(WorkoutExerciseIds)}

UpdateSetRequests ==
    {[setId |-> d[1], reps |-> d[2].reps, weight |-> d[2].weight] :
        d \in ClientSetData(SetIds)}

DeleteSetRequests == [setId : SetIds \cup {BadId}]

\* Every request goes through a server action, one at a time.
NextActions ==
    \E p \in Procs, session \in Sessions :
        \/ \E data \in CreateWorkoutRequests :
                /\ createWorkoutAction(p, session, data)
                /\ UNCHANGED client
        \/ \E data \in UpdateWorkoutRequests :
                /\ updateWorkoutAction(p, session, data)
                /\ UNCHANGED client
        \/ \E data \in AddExerciseRequests :
                /\ addExerciseToWorkoutAction(p, session, data)
                /\ UNCHANGED client
        \/ \E data \in RemoveExerciseRequests :
                /\ removeExerciseFromWorkoutAction(p, session, data)
                /\ UNCHANGED client
        \/ \E data \in CreateSetRequests :
                /\ createSetAction(p, session, data)
                /\ UNCHANGED client
        \/ \E data \in UpdateSetRequests :
                /\ updateSetAction(p, session, data)
                /\ UNCHANGED client
        \/ \E data \in DeleteSetRequests :
                /\ deleteSetAction(p, session, data)
                /\ UNCHANGED client
        \/ /\ ReturnAction(p)
           /\ UNCHANGED client

SpecActions == Init /\ [][NextActions]_vars

\* --------------------------------------- src/app/dashboard/dashboard-client.tsx

\* The days of the calendar.
CalendarDays == 0 .. MaxDay

\* A Date object handed to a callback that may also be handed undefined.
DateOf(t) == [time |-> t]

\* format(newDate, 'yyyy-MM-dd'): the calendar day of the date.
format(t) == startOfDay(t) \div TicksPerDay

\* newDate.toISOString(): the instant, written out.
toISOString(t) == DecimalDigits(t)

\* A calendar that stays enabled while a request is pending.
CalendarNeverDisabled == FALSE

\* <Calendar disabled={isPending} />
CalendarDisabled == dashboard.isPending

\* <Popover open={isPopoverOpen} onOpenChange={setIsPopoverOpen}>: the
\* trigger opens the popover, the trigger or a click outside closes it.
setIsPopoverOpen(open) ==
    /\ dashboard.isPopoverOpen # open
    /\ dashboard' = [dashboard EXCEPT !.isPopoverOpen = open]
    /\ UNCHANGED <<workouts, workoutExercises, sets, seq, proc, createdBy, inserted,
                   response, calls>>

\* handleDateChange: an undefined date returns at once; a date is shown,
\* the popover closes, the URL follows, and the transition starts its
\* getWorkoutsForDate call, which holds newDate until it settles.
handleDateChange(newDate) ==
    IF newDate = UNDEFINED THEN UNCHANGED vars
    ELSE /\ Len(calls) < MaxCalls
         /\ dashboard' = [dashboard EXCEPT !.date = newDate.time,
                                           !.isPopoverOpen = FALSE,
                                           !.url = <<format(newDate.time)>>,
                                           !.isPending = TRUE]
         /\ calls' = Append(calls, [newDate |-> newDate.time,
                                    date |-> toISOString(newDate.time),
                                    state |-> "sent"])
         /\ UNCHANGED <<workouts, workoutExercises, sets, seq, proc, createdBy,
                        inserted, response>>

\* A click on a day of the open calendar: mode="single" hands onSelect the
\* day at its first tick, or undefined when the day is the selected one.  A
\* disabled calendar takes no click.
onSelect(day) ==
    /\ dashboard.isPopoverOpen
    /\ ~CalendarDisabled
    /\ handleDateChange(IF startOfDay(day * TicksPerDay) = startOfDay(dashboard.date)
                        THEN UNDEFINED
                        ELSE DateOf(day * TicksPerDay))

\* The server answers call k with the viewer's workouts of the date it was
\* sent, as the store holds them at that moment.
getWorkoutsForDate(k) ==
    /\ k \in DOMAIN calls
    /\ calls[k].state = "sent"
    /\ \E data \in getWorkoutsByUserIdAndDate(Viewer, DateParse(calls[k].date).value) :
            calls' = [calls EXCEPT ![k] = [newDate |-> calls[k].newDate,
                                           date |-> calls[k].date,
                                           state |-> "answered",
                                           data |-> data]]
    /\ UNCHANGED <<workouts, workoutExercises, sets, seq, proc, createdBy, inserted,
                   response, dashboard>>

\* The calls that stay open when call k settles.
Remaining(k) == SubSeq(calls, 1, k - 1) \o SubSeq(calls, k + 1, Len(calls))

\* The await of call k resumes: setWorkouts(data), and the transition is
\* over when no call of it is left.
setWorkouts(k) ==
    /\ k \in DOMAIN calls
    /\ calls[k].state = "answered"
    /\ calls' = Remaining(k)
    /\ dashboard' = [dashboard EXCEPT !.workouts = calls[k].data,
                                      !.fetchedFor = calls[k].newDate,
                                      !.isPending = Remaining(k) # <<>>]
    /\ UNCHANGED <<workouts, workoutExercises, sets, seq, proc, createdBy, inserted,
                   response>>

\* The dashboard of one browser, while workouts are logged on the server.
NextDashboard ==
    \/ \E p \in Procs, u \in Users, n \in Names, t \in Times :
            /\ createWorkout(p, u, n, t)
            /\ UNCHANGED <<response, client>>
    \/ \E p \in Procs :
            /\ Return(p)
            /\ UNCHANGED <<response, client>>
    \/ \E open \in BOOLEAN : setIsPopoverOpen(open)
    \/ \E day \in CalendarDays : onSelect(day)
    \/ \E k \in 1 .. MaxCalls : getWorkoutsForDate(k)
    \/ \E k \in 1 .. MaxCalls : setWorkouts(k)

SpecDashboard == Init /\ [][NextDashboard]_vars

\* ================================================================= claims

\* Ownership as the data model defines it: Set -> WorkoutExercise -> Workout
\* -> userId.
OwnsWorkout(u, workoutId) ==
    \E w \in workouts : w.id = workoutId /\ w.userId = u

OwnsWorkoutExercise(u, workoutExerciseId) ==
    \E we \in workoutExercises :
        we.id = workoutExerciseId /\ OwnsWorkout(u, we.workoutId)

OwnsSet(u, setId) ==
    \E s \in sets : s.id = setId /\ OwnsWorkoutExercise(u, s.workoutExerciseId)

IsSorted(q, column) == \A i, j \in DOMAIN q : i < j => q[i][column] <= q[j][column]

Range(q) == {q[i] : i \in DOMAIN q}

Returned(p, op) == proc[p].pc = "done" /\ proc[p].op = op

\* C1: after any sequence of data-layer calls, every workout createWorkout
\* made for user U is what getWorkoutById(id, U) returns, and
\* getWorkoutById(id, U2) is null for every other user U2.
C1_FetchByIdIsOwnerScoped ==
    \A id \in DOMAIN createdBy :
        /\ \E w \in workouts : w.id = id /\ getWorkoutById(id, createdBy[id]) = w
        /\ \A u2 \in Users \ {createdBy[id]} : getWorkoutById(id, u2) = NULL

C1_Witness ==
    /\ \E a, b \in DOMAIN createdBy : createdBy[a] # createdBy[b]
    /\ sets # {}

\* C2: no read of the data layer gives Sets to a caller who does not own
\* them: for a caller who does not own the workout exercise (the workout),
\* getSetsByWorkoutExercise gives no set and getWorkoutExercisesWithSets
\* gives null.
C2_ReadsOfSetsAreOwnerScoped ==
    \A u \in Users :
        /\ \A id \in WorkoutExerciseIds :
            ~OwnsWorkoutExercise(u, id) =>
                \A result \in getSetsByWorkoutExercise(id) : result = <<>>
        /\ \A id \in WorkoutIds :
            ~OwnsWorkout(u, id) => getWorkoutExercisesWithSets(id, u) = {NULL}

\* The step is the return of a call of op by request p (every call of op is
\* such a step).
Returns(p, op) == proc[p] = Idle /\ proc'[p].pc = "done" /\ proc'[p].op = op

\* What C3 asks of a refused call of request p: null, and no table changed.
Refused(p) ==
    /\ proc'[p].ret = NULL
    /\ UNCHANGED <<workouts, workoutExercises, sets, seq>>

\* C3: a mutation whose caller does not own the target, or whose target does
\* not exist, returns null and leaves every row of every table as it was (so
\* the same call made again meets the same store and ends the same way).
C3_UnauthorizedMutationIsNoOp ==
    [][\A p \in Procs, u \in Users :
        /\ Returns(p, "createSet") =>
            \A id \in WorkoutExerciseIds, i \in SetInputs :
                ~OwnsWorkoutExercise(u, id) /\ createSet(p, id, i.reps, i.weight, u)
                    => Refused(p)
        /\ Returns(p, "updateSet") =>
            \A id \in SetIds, i \in SetInputs :
                ~OwnsSet(u, id) /\ updateSet(p, id, i.reps, i.weight, u) => Refused(p)
        /\ Returns(p, "deleteSet") =>
            \A id \in SetIds :
                ~OwnsSet(u, id) /\ deleteSet(p, id, u) => Refused(p)
        /\ Returns(p, "addExerciseToWorkout") =>
            \A id \in WorkoutIds, e \in ExerciseIds :
                ~OwnsWorkout(u, id) /\ addExerciseToWorkout(p, id, e, u) => Refused(p)
        /\ Returns(p, "removeExerciseFromWorkout") =>
            \A id \in WorkoutExerciseIds :
                ~OwnsWorkoutExercise(u, id) /\ removeExerciseFromWorkout(p, id, u)
                    => Refused(p)
        /\ Returns(p, "updateWorkout") =>
            \A id \in WorkoutIds, d \in PlainData :
                ~OwnsWorkout(u, id) /\ updateWorkout(p, id, u, d) => Refused(p)
      ]_vars

\* Every set id a caller can pass exists, so the null of this updateSet is
\* the answer to a caller who does not own the set.
C3_Witness ==
    /\ \A id \in SetIds : \E s \in sets : s.id = id
    /\ \E p \in Procs : Returned(p, "updateSet") /\ proc[p].ret = NULL

\* The sets ever inserted under a workout exercise, and those still there.
InsertedSets(workoutExerciseId) ==
    {r \in inserted.sets : r.workoutExerciseId = workoutExerciseId}

SetsOf(workoutExerciseId) ==
    {s \in sets : s.workoutExerciseId = workoutExerciseId}

NoSetDeleted(workoutExerciseId) ==
    \A r \in InsertedSets(workoutExerciseId) : \E s \in sets : s.id = r.id

\* C4: serialized, after N createSet calls of the owner into one workout
\* exercise that started empty (and no delete), its setNumbers are exactly
\* 1..N without duplicates, and the k-th call returned setNumber k.
C4_SetNumbersAreOneToN ==
    /\ \A we \in workoutExercises :
        NoSetDeleted(we.id) =>
            LET n == Cardinality(InsertedSets(we.id))
            IN  /\ {s.setNumber : s \in SetsOf(we.id)} = 1 .. n
                /\ Cardinality(SetsOf(we.id)) = n
                /\ \A r \in InsertedSets(we.id) :
                    r.setNumber = Cardinality({x \in InsertedSets(we.id) : x.id <= r.id})
    /\ \A p \in Procs :
        Returned(p, "createSet") /\ proc[p].ret # NULL =>
            /\ proc[p].ret \in sets
            /\ \E r \in inserted.sets :
                r.id = proc[p].ret.id /\ r.setNumber = proc[p].ret.setNumber

C4_Witness ==
    \E we \in workoutExercises :
        /\ NoSetDeleted(we.id)
        /\ Cardinality(InsertedSets(we.id)) >= 2
        /\ \E p \in Procs : Returned(p, "createSet") /\ proc[p].ret \in SetsOf(we.id)

\* C5: sequence values are unique within their parent in every reachable
\* state, the states reached by interleaving the statements of concurrent
\* inserts included: no two sets of one workout exercise share a setNumber and
\* no two workout exercises of one workout share an order.  Two createSet calls
\* that both run their max query before either runs its insert compute the
\* same nextSetNumber, and nothing in the store refuses the second insert; the
\* same holds for two addExerciseToWorkout calls and order.
C5_SequenceValuesAreUnique ==
    /\ \A s1 \in sets, s2 \in sets :
            (s1.workoutExerciseId = s2.workoutExerciseId /\ s1.setNumber = s2.setNumber)
                => s1.id = s2.id
    /\ \A w1 \in workoutExercises, w2 \in workoutExercises :
            (w1.workoutId = w2.workoutId /\ w1.order = w2.order) => w1.id = w2.id

\* The workout exercises ever inserted under a workout, and those still there.
InsertedWorkoutExercises(workoutId) ==
    {r \in inserted.workoutExercises : r.workoutId = workoutId}

WorkoutExercisesOf(workoutId) ==
    {we \in workoutExercises : we.workoutId = workoutId}

NoExerciseRemoved(workoutId) ==
    \A r \in InsertedWorkoutExercises(workoutId) :
        \E we \in workoutExercises : we.id = r.id

\* C6: serialized, the first addExerciseToWorkout of the owner into a workout
\* without exercises gets order 0 and the k-th gets k-1: after N adds and no
\* removal the orders of the workout are exactly 0..N-1.
C6_OrdersAreZeroToNMinusOne ==
    /\ \A w \in workouts :
        NoExerciseRemoved(w.id) =>
            LET n == Cardinality(InsertedWorkoutExercises(w.id))
            IN  /\ {we.order : we \in WorkoutExercisesOf(w.id)} = 0 .. (n - 1)
                /\ Cardinality(WorkoutExercisesOf(w.id)) = n
                /\ \A r \in InsertedWorkoutExercises(w.id) :
                    r.order =
                        Cardinality({x \in InsertedWorkoutExercises(w.id) : x.id <= r.id}) - 1
    /\ \A p \in Procs :
        Returned(p, "addExerciseToWorkout") /\ proc[p].ret \notin {NULL, THROWN} =>
            /\ proc[p].ret \in workoutExercises
            /\ \E r \in inserted.workoutExercises :
                r.id = proc[p].ret.id /\ r.order = proc[p].ret.order

C6_Witness ==
    \E w \in workouts :
        /\ NoExerciseRemoved(w.id)
        /\ Cardinality(InsertedWorkoutExercises(w.id)) >= 2
        /\ \E p \in Procs :
            Returned(p, "addExerciseToWorkout") /\ proc[p].ret \in WorkoutExercisesOf(w.id)

\* C7: deleting a workout removes every workout exercise of it and every set
\* under those: once the delete has returned the workout, no workout
\* exercise or set that was under it is left.
C7_DeleteWorkoutCascades ==
    \A p \in Procs :
        Returned(p, "deleteWorkout") /\ proc[p].ret # UNDEFINED =>
            LET w == proc[p].ret
            IN  /\ w \notin workouts
                /\ WorkoutExercisesOf(w.id) = {}
                /\ \A r \in InsertedWorkoutExercises(w.id) :
                    /\ SetsOf(r.id) = {}
                    /\ \A we \in workoutExercises : we.id # r.id

C7_Witness ==
    \E p \in Procs :
        /\ Returned(p, "deleteWorkout")
        /\ proc[p].ret # UNDEFINED
        /\ \E x, y \in proc[p].cascaded :
            "order" \in DOMAIN x /\ "setNumber" \in DOMAIN y

\* C8: removeExerciseFromWorkout by the owner deletes that workout exercise
\* and the sets under it and nothing else, returns the deleted record (with
\* its workoutId), and renumbers no sibling.
C8_RemoveExerciseDeletesOnlyItsSubtree ==
    [][\A p \in Procs, u \in Users, id \in WorkoutExerciseIds :
        OwnsWorkoutExercise(u, id) /\ removeExerciseFromWorkout(p, id, u) =>
            LET we == CHOOSE x \in workoutExercises : x.id = id
            IN  /\ workoutExercises' = workoutExercises \ {we}
                /\ sets' = {s \in sets : s.workoutExerciseId # id}
                /\ workouts' = workouts
                /\ proc'[p].ret = we
                /\ proc'[p].ret.workoutId = we.workoutId
      ]_vars

C8_Witness ==
    \E p \in Procs :
        /\ Returned(p, "removeExerciseFromWorkout")
        /\ proc[p].ret \notin {NULL, UNDEFINED}
        /\ proc[p].cascaded # {}
        /\ \E we \in workoutExercises :
            we.workoutId = proc[p].ret.workoutId /\ we.order > proc[p].ret.order

\* The calendar day a time falls on.
DayOf(t) == t \div TicksPerDay

\* C9: getWorkoutsByUserIdAndDate(U, date) gives exactly the workouts of U
\* whose startedAt lies between the first and the last tick of the day of
\* date, both included, in ascending startedAt order.
C9_WorkoutsOfTheDay ==
    \A u \in Users, date \in Times :
        LET first == DayOf(date) * TicksPerDay
            last == (DayOf(date) + 1) * TicksPerDay - 1
            expected == {w \in workouts :
                            w.userId = u /\ first <= w.startedAt /\ w.startedAt <= last}
            results == getWorkoutsByUserIdAndDate(u, date)
        IN  /\ results # {}
            /\ \A q \in results :
                /\ Range(q) = expected
                /\ Len(q) = Cardinality(expected)
                /\ IsSorted(q, "startedAt")

\* Two workouts of one user on one day, the one created later started
\* earlier.
C9_Witness ==
    \E a, b \in workouts :
        /\ a.userId = b.userId
        /\ DayOf(a.startedAt) = DayOf(b.startedAt)
        /\ a.startedAt < b.startedAt
        /\ a.id > b.id

\* C10: getWorkoutExercisesWithSets(workoutId, U) is null when U owns no
\* workout of that id; otherwise it lists all workout exercises of the
\* workout by ascending order, each with exactly its own sets by ascending
\* setNumber.
C10_DetailIsOrderedAndComplete ==
    \A u \in Users, id \in WorkoutIds :
        LET results == getWorkoutExercisesWithSets(id, u)
        IN  /\ results # {}
            /\ ~OwnsWorkout(u, id) => results = {NULL}
            /\ OwnsWorkout(u, id) =>
                \A r \in results :
                    /\ r # NULL
                    /\ LET q == r.array
                       IN  /\ {x.id : x \in Range(q)} = {we.id : we \in WorkoutExercisesOf(id)}
                           /\ Len(q) = Cardinality(WorkoutExercisesOf(id))
                           /\ IsSorted(q, "order")
                           /\ \A i \in DOMAIN q :
                               /\ \E we \in WorkoutExercisesOf(id) :
                                   /\ we.id = q[i].id
                                   /\ we.order = q[i].order
                                   /\ we.exerciseId = q[i].exerciseId
                               /\ {s.id : s \in Range(q[i].sets)}
                                      = {s.id : s \in SetsOf(q[i].id)}
                               /\ Len(q[i].sets) = Cardinality(SetsOf(q[i].id))
                               /\ IsSorted(q[i].sets, "setNumber")
                               /\ \A j \in DOMAIN q[i].sets :
                                   \E s \in SetsOf(q[i].id) :
                                       /\ s.id = q[i].sets[j].id
                                       /\ s.setNumber = q[i].sets[j].setNumber
                                       /\ s.reps = q[i].sets[j].reps
                                       /\ s.weight = q[i].sets[j].weight

\* A workout with two exercises, one of them with two sets.
C10_Witness ==
    \E w \in workouts :
        /\ Cardinality(WorkoutExercisesOf(w.id)) >= 2
        /\ \E we \in WorkoutExercisesOf(w.id) : Cardinality(SetsOf(we.id)) >= 2

\* The step is the answer of server action `action` to request p.
Responds(p, action) ==
    /\ response[p] = NoResponse
    /\ response'[p] # NoResponse
    /\ response'[p].action = action

\* What C11 asks of a call on a target the caller does not own: the data
\* function gives null and the action answers with the one message, whether
\* the target is a row of another user or no row at all.
SameAsNotFound(p, message) ==
    /\ proc'[p].ret = NULL
    /\ response'[p].result = [error |-> message]
    /\ response'[p].revalidated = {}

C11_ReadsOfNonOwner ==
    \A u \in Users, id \in WorkoutIds :
        ~OwnsWorkout(u, id) =>
            /\ getWorkoutById(id, u) = NULL
            /\ getWorkoutWithExercises(id, u) = {NULL}
            /\ getWorkoutExercisesWithSets(id, u) = {NULL}

C11_MutationsOfNonOwner ==
    \A p \in Procs, u \in Users :
        LET session == [userId |-> u]
        IN  /\ Responds(p, "updateWorkoutAction") =>
                \A data \in UpdateWorkoutRequests :
                    /\ UpdateWorkoutSchema(data) /\ ~OwnsWorkout(u, data.workoutId)
                    /\ updateWorkoutAction(p, session, data)
                    => SameAsNotFound(p, "Workout not found or unauthorized")
            /\ Responds(p, "addExerciseToWorkoutAction") =>
                \A data \in AddExerciseRequests :
                    /\ AddExerciseToWorkoutSchema(data) /\ ~OwnsWorkout(u, data.workoutId)
                    /\ addExerciseToWorkoutAction(p, session, data)
                    => SameAsNotFound(p, "Workout not found or unauthorized")
            /\ Responds(p, "removeExerciseFromWorkoutAction") =>
                \A data \in RemoveExerciseRequests :
                    /\ RemoveExerciseFromWorkoutSchema(data)
                    /\ ~OwnsWorkoutExercise(u, data.workoutExerciseId)
                    /\ removeExerciseFromWorkoutAction(p, session, data)
                    => SameAsNotFound(p, "Exercise not found or unauthorized")
            /\ Responds(p, "createSetAction") =>
                \A data \in CreateSetRequests :
                    /\ CreateSetSchema(data)
                    /\ ~OwnsWorkoutExercise(u, data.workoutExerciseId)
                    /\ createSetAction(p, session, data)
                    => SameAsNotFound(p, "Exercise not found or unauthorized")
            /\ Responds(p, "updateSetAction") =>
                \A data \in UpdateSetRequests :
                    /\ UpdateSetSchema(data) /\ ~OwnsSet(u, data.setId)
                    /\ updateSetAction(p, session, data)
                    => SameAsNotFound(p, "Set not found or unauthorized")
            /\ Responds(p, "deleteSetAction") =>
                \A data \in DeleteSetRequests :
                    /\ DeleteSetSchema(data) /\ ~OwnsSet(u, data.setId)
                    /\ deleteSetAction(p, session, data)
                    => SameAsNotFound(p, "Set not found or unauthorized")

\* C11: a caller who does not own X gets the same result from every
\* ownership-scoped operation, and the same message from its server action,
\* in a store where X is a row of another user and in a store where X is no
\* row at all: in every reachable store the reads give null and the
\* mutations give null and the action's one 'not found or unauthorized'
\* message, for every X the caller does not own.
C11_NotFoundAndNotAuthorizedAreOne ==
    []C11_ReadsOfNonOwner /\ [][C11_MutationsOfNonOwner]_vars

\* A caller was just refused on a set, while every set id is the id of a row
\* and one set id is not: the refusal can be either case.
C11_Witness ==
    /\ \E p \in Procs :
            /\ response[p] # NoResponse
            /\ response[p].result = [error |-> "Set not found or unauthorized"]
    /\ \E u \in Users, id \in SetIds : ~OwnsSet(u, id) /\ \E s \in sets : s.id = id
    /\ \E id \in SetIds : \A s \in sets : s.id # id

\* The users who own a workout, a workout exercise or a set, given the rows
\* of workouts and workout_exercises to look the chain up in.
OwnersOfWorkout(ws, workoutId) == {w.userId : w \in {x \in ws : x.id = workoutId}}

OwnersOfWorkoutExercise(ws, wes, workoutExerciseId) ==
    UNION {OwnersOfWorkout(ws, we.workoutId) :
            we \in {x \in wes : x.id = workoutExerciseId}}

\* Every row the step inserts, changes or deletes (a cascade included) is
\* owned by u: a row that goes or is replaced by its owner before the step,
\* a row that comes or replaces one by its owner after it.
WritesOnlyRowsOf(u) ==
    /\ \A w \in (workouts \ workouts') \cup (workouts' \ workouts) : w.userId = u
    /\ \A we \in workoutExercises \ workoutExercises' :
            OwnersOfWorkout(workouts, we.workoutId) \subseteq {u}
    /\ \A we \in workoutExercises' \ workoutExercises :
            OwnersOfWorkout(workouts', we.workoutId) \subseteq {u}
    /\ \A s \in sets \ sets' :
            OwnersOfWorkoutExercise(workouts, workoutExercises, s.workoutExerciseId)
                \subseteq {u}
    /\ \A s \in sets' \ sets :
            OwnersOfWorkoutExercise(workouts', workoutExercises', s.workoutExerciseId)
                \subseteq {u}

\* Request p is between two statements of a call.
InFlight(p) == proc[p].pc \notin {"idle", "done"}

\* C12: under any interleaving of the statements of concurrent calls of
\* different users, a statement of a call made with caller U inserts under,
\* changes and deletes only rows whose owning workout has userId U when the
\* statement is applied, although the ownership query and the write are
\* separate statements with no transaction around them.
C12_WritesStayWithinTheCallersRows ==
    [][\A p \in Procs :
        /\ InFlight(p) /\ proc'[p] # proc[p] => WritesOnlyRowsOf(proc[p].userId)
        /\ Returns(p, "createWorkout") =>
            \A u \in Users :
                createWorkoutStatement(p, u, PlainName, PlainTime) => WritesOnlyRowsOf(u)
        /\ Returns(p, "updateWorkout") =>
            \A u \in Users, id \in WorkoutIds, d \in PlainData :
                updateWorkoutStatement(p, id, u, d) => WritesOnlyRowsOf(u)
      ]_vars

\* A request past its ownership query finds its set gone, and a request of
\* another user has written in between.
C12_Witness ==
    \E p, q \in Procs :
        /\ proc[p].pc = "updateSet:update"
        /\ \A s \in sets : s.id # proc[p].setId
        /\ proc[q].pc = "done" /\ proc[q].op = "updateWorkout"
        /\ proc[q].ret \in workouts
        /\ proc[q].ret.userId # proc[p].userId

\* The step is the return of a call of op by request p, from its first
\* statement or from a later one.
Finishes(p, op) ==
    /\ proc[p].pc # "done"
    /\ proc'[p].pc = "done"
    /\ proc'[p].op = op

\* C13: deleteSet returns the deleted set exactly when the call removed the
\* row, and null otherwise; so of two interleaved deleteSet calls of the
\* owner for one set, one returns the record and the other null.  The call
\* whose delete statement finds the row gone returns what
\* `const [deleted] = []` leaves in deleted, which is undefined.
C13_DeleteSetReturnsRecordOrNull ==
    [][\A p \in Procs :
        Finishes(p, "deleteSet") =>
            IF sets' # sets
            THEN sets \ sets' = {proc'[p].ret} /\ sets' \subseteq sets
            ELSE proc'[p].ret = NULL
      ]_vars

\* The actions that change a workout that exists, its exercises or its sets.
MutatingActions ==
    {"updateWorkoutAction", "addExerciseToWorkoutAction",
     "removeExerciseFromWorkoutAction", "createSetAction", "updateSetAction",
     "deleteSetAction"}

\* Request p has been answered by one of these actions with success.
Succeeded(p) ==
    /\ response[p] # NoResponse
    /\ response[p].action \in MutatingActions
    /\ "success" \in DOMAIN response[p].result

\* The workout the successful action of request p changed: the row the data
\* function returned is the workout, one of its exercises or one of its sets.
AffectedWorkouts(p) ==
    LET ret == proc[p].ret
    IN  IF response[p].action = "updateWorkoutAction" THEN {ret.id}
        ELSE IF response[p].action \in
                    {"addExerciseToWorkoutAction", "removeExerciseFromWorkoutAction"}
        THEN {ret.workoutId}
        ELSE {we.workoutId : we \in {x \in workoutExercises :
                                        x.id = ret.workoutExerciseId}}

\* C14: after every successful mutation through updateWorkoutAction,
\* addExerciseToWorkoutAction, removeExerciseFromWorkoutAction,
\* createSetAction, updateSetAction or deleteSetAction, the paths the action
\* revalidated include the detail path /dashboard/workout/<id> of the
\* affected workout and the listing path /dashboard.  The exercise actions
\* revalidate the detail path only, and the set actions revalidate the one
\* path `/dashboard/workout/*`.
C14_MutationsRevalidateDetailAndListing ==
    \A p \in Procs :
        Succeeded(p) =>
            /\ ListingPath \in response[p].revalidated
            /\ \A id \in AffectedWorkouts(p) :
                DetailPath(id) \in response[p].revalidated

\* What C15 asks of the answer to request p: the one error, no data function
\* called, no path revalidated, the store as it was.
OnlyUnauthorized(p) ==
    /\ response'[p].result = [error |-> "Unauthorized"]
    /\ response'[p].steps = <<"auth">>
    /\ response'[p].revalidated = {}
    /\ UNCHANGED <<workouts, workoutExercises, sets, seq, proc>>

\* C15: every server action called without an authenticated user id returns
\* {error: 'Unauthorized'}, calls no data-layer function and no
\* revalidatePath, and leaves the store and the cache unchanged, whatever
\* data it is called with.
C15_UnauthenticatedActionDoesNothing ==
    [][\A p \in Procs :
        /\ Responds(p, "createWorkoutAction") =>
            \A data \in CreateWorkoutRequests :
                createWorkoutAction(p, Anonymous, data) => OnlyUnauthorized(p)
        /\ Responds(p, "updateWorkoutAction") =>
            \A data \in UpdateWorkoutRequests :
                updateWorkoutAction(p, Anonymous, data) => OnlyUnauthorized(p)
        /\ Responds(p, "addExerciseToWorkoutAction") =>
            \A data \in AddExerciseRequests :
                addExerciseToWorkoutAction(p, Anonymous, data) => OnlyUnauthorized(p)
        /\ Responds(p, "removeExerciseFromWorkoutAction") =>
            \A data \in RemoveExerciseRequests :
                removeExerciseFromWorkoutAction(p, Anonymous, data)
                    => OnlyUnauthorized(p)
        /\ Responds(p, "createSetAction") =>
            \A data \in CreateSetRequests :
                createSetAction(p, Anonymous, data) => OnlyUnauthorized(p)
        /\ Responds(p, "updateSetAction") =>
            \A data \in UpdateSetRequests :
                updateSetAction(p, Anonymous, data) => OnlyUnauthorized(p)
        /\ Responds(p, "deleteSetAction") =>
            \A data \in DeleteSetRequests :
                deleteSetAction(p, Anonymous, data) => OnlyUnauthorized(p)
      ]_vars

\* An anonymous caller was just refused by deleteSetAction while there is a
\* set to delete.
C15_Witness ==
    /\ sets # {}
    /\ \E p \in Procs :
        /\ response[p] # NoResponse
        /\ response[p].action = "deleteSetAction"
        /\ response[p].result = [error |-> "Unauthorized"]
        /\ proc[p] = Idle

\* The messages of the actions for a falsy record and for an error that is
\* not a ZodError.
NotFoundMessages ==
    {"Workout not found or unauthorized", "Exercise not found or unauthorized",
     "Set not found or unauthorized"}

FailedMessages ==
    {"Failed to create workout", "Failed to update workout",
     "Failed to add exercise to workout", "Failed to remove exercise from workout",
     "Failed to create set", "Failed to update set", "Failed to delete set"}

\* A result object: { success: true, ... } or { error: ... }.
IsResult(result) ==
    /\ result # THROWN
    /\ \/ "success" \in DOMAIN result /\ result.success
       \/ "error" \in DOMAIN result

\* C16: every server action returns a result object for every outcome and
\* never throws to its caller; a null from the data layer yields the
\* '... not found or unauthorized' error and nothing else, and an error raised
\* by the store yields {error: 'Failed to ...'} with no other key, so no
\* detail of the failure.
C16_ActionsAlwaysReturnAResult ==
    \A p \in Procs :
        response[p] # NoResponse =>
            /\ IsResult(response[p].result)
            /\ proc[p].pc = "done" /\ proc[p].ret = NULL =>
                response[p].result \in {[error |-> m] : m \in NotFoundMessages}
            /\ proc[p].pc = "done" /\ proc[p].ret = THROWN =>
                response[p].result \in {[error |-> m] : m \in FailedMessages}

\* The store has refused a write and the action has answered its caller.
C16_Witness ==
    \E p \in Procs :
        /\ proc[p].pc = "done"
        /\ proc[p].ret = THROWN
        /\ response[p] # NoResponse
        /\ response[p].result = [error |-> "Failed to create set"]

\* C17: the userId of a workout never changes after createWorkout: in every
\* state reached by the server actions and the data functions they call,
\* every workout row carries the userId createWorkout was given for it.
C17_WorkoutOwnerNeverChanges ==
    \A w \in workouts : w.id \in DOMAIN createdBy /\ w.userId = createdBy[w.id]

\* A workout has just been updated through updateWorkoutAction, and there
\* are workouts of two users.
C17_Witness ==
    /\ \E p \in Procs :
        /\ response[p] # NoResponse
        /\ response[p].action = "updateWorkoutAction"
        /\ "success" \in DOMAIN response[p].result
        /\ response[p].result.workout \in workouts
    /\ \E a, b \in workouts : a.userId # b.userId

\* A weight that is no number at all or a negative one, and a reps count out
\* of range.
InvalidWeight(weight) == ~NumericAccepts(weight) \/ parseFloat(weight).value < 0

InvalidReps(reps) == reps <= 0 \/ reps > 1000

\* What C18 asks of the answer to request p for such values.
OnlyInvalidInput(p) ==
    /\ "error" \in DOMAIN response'[p].result
    /\ response'[p].result.error = "Invalid input"
    /\ UNCHANGED <<workouts, workoutExercises, sets, seq>>

C18_StoredSetsAreInRange ==
    \A s \in sets : s.reps > 0 /\ parseFloat(s.weight).value >= 0

C18_InvalidSetsAreRefused ==
    \A p \in Procs, u \in Users :
        /\ Responds(p, "createSetAction") =>
            \A data \in CreateSetRequests :
                /\ InvalidReps(data.reps) \/ InvalidWeight(data.weight)
                /\ createSetAction(p, [userId |-> u], data)
                => OnlyInvalidInput(p)
        /\ Responds(p, "updateSetAction") =>
            \A data \in UpdateSetRequests :
                /\ InvalidReps(data.reps) \/ InvalidWeight(data.weight)
                /\ updateSetAction(p, [userId |-> u], data)
                => OnlyInvalidInput(p)

\* C18: after any sequence of createSetAction and updateSetAction calls every
\* stored set has reps > 0 and weight >= 0, and a call with reps <= 0 or
\* reps > 1000, or with a negative or non-numeric weight, returns
\* {error: 'Invalid input'} and writes nothing.  A weight that begins with
\* digits and goes on with text ('5kg') passes the schema, whose refine
\* looks at parseFloat(val) only, and the call goes on to the data layer.
C18_SetsAreValidatedBeforeTheyAreStored ==
    []C18_StoredSetsAreInRange /\ [][C18_InvalidSetsAreRefused]_vars

\* C19, as stated: in any serialized sequence of addExerciseToWorkout and
\* removeExerciseFromWorkout calls on one workout, each newly assigned order
\* is greater than every order assigned to that workout before it (ids are
\* serial, so the earlier insert has the smaller id).  After the exercise
\* with the highest order is removed, max existing + 1 is that order again.
C19_OrdersIncreaseOverTime ==
    \A r1, r2 \in inserted.workoutExercises :
        r1.workoutId = r2.workoutId /\ r1.id < r2.id => r1.order < r2.order

\* C19, amended: each newly assigned order is greater than the order of
\* every workout exercise that is in the workout when the call is made.
C19_NewOrderExceedsExistingOrders ==
    [][\A p \in Procs :
        Returns(p, "addExerciseToWorkout") =>
            \A r \in inserted'.workoutExercises \ inserted.workoutExercises :
                \A we \in workoutExercises :
                    we.workoutId = r.workoutId => r.order > we.order
      ]_vars

\* An exercise was just added to a workout that had an exercise, after
\* another had been removed from it, and got the higher order.
C19_Witness ==
    \E p \in Procs, we \in workoutExercises :
        /\ Returned(p, "addExerciseToWorkout")
        /\ proc[p].ret \in workoutExercises
        /\ we.workoutId = proc[p].ret.workoutId
        /\ we.id < proc[p].ret.id
        /\ we.order < proc[p].ret.order
        /\ \E r \in inserted.workoutExercises :
            /\ r.workoutId = we.workoutId
            /\ r.id < proc[p].ret.id
            /\ \A x \in workoutExercises : x.id # r.id

\* The step is the update statement of request p's updateSet.
WritesSet(p) == proc[p].pc = "updateSet:update" /\ proc'[p].pc = "done"

\* The row of set id after the step holds both values of request p's call.
HoldsPairOf(p, id) ==
    \A t \in sets' :
        t.id = id => t.reps = proc[p].reps /\ t.weight = Numeric(proc[p].weight)

\* C20: when updateSet calls of the owner on one set run concurrently, the
\* row holds after each write statement the (reps, weight) of the call that
\* issued it, and reps or weight change in no other step: the final row is
\* the pair of the call whose write was applied last, never reps of one call
\* with weight of the other.
C20_LastWriteWinsWithBothColumns ==
    [][/\ \A p \in Procs : WritesSet(p) => HoldsPairOf(p, proc[p].setId)
       /\ \A s \in sets, t \in sets' :
            (s.id = t.id /\ <<s.reps, s.weight>> # <<t.reps, t.weight>>) =>
                \E p \in Procs :
                    WritesSet(p) /\ proc[p].setId = t.id /\ HoldsPairOf(p, t.id)
      ]_vars

\* One call has written the set while another call for the same set, with
\* other reps and another weight, is between its ownership query and its
\* write.
C20_Witness ==
    \E p, q \in Procs :
        /\ proc[p].pc = "updateSet:update"
        /\ Returned(q, "updateSet")
        /\ proc[q].ret \in sets
        /\ proc[q].ret.id = proc[p].setId
        /\ proc[q].ret.reps # proc[p].reps
        /\ proc[q].ret.weight # Numeric(proc[p].weight)

\* The insert statement request p is about to issue names a parent row that
\* is not there: an exercise outside the catalog, or a workout exercise that
\* has been removed since the ownership query.
FailingInsert(p) ==
    \/ /\ proc[p].pc = "addExerciseToWorkout:insert"
       /\ \/ \A e \in exercises : e.id # proc[p].exerciseId
          \/ \A w \in workouts : w.id # proc[p].workoutId
    \/ /\ proc[p].pc = "createSet:insert"
       /\ \A we \in workoutExercises : we.id # proc[p].workoutExerciseId

\* C21: the data functions neither swallow nor retry a failure of the
\* store: when a write statement fails (addExerciseToWorkout of the owner
\* with an exerciseId that is not in the catalog, a foreign key violation),
\* the call ends there with the error, not with null or a row, issues no
\* further statement, and no row of any table is inserted or changed.
C21_StoreFailuresPropagate ==
    [][\A p \in Procs :
        /\ FailingInsert(p) /\ proc'[p] # proc[p] =>
            /\ proc'[p].pc = "done"
            /\ proc'[p].ret = THROWN
            /\ UNCHANGED <<workouts, workoutExercises, sets>>
        /\ proc[p].pc # "done" /\ proc'[p].pc = "done" /\ proc'[p].ret = THROWN =>
            UNCHANGED <<workouts, workoutExercises, sets>>
        /\ proc[p].pc = "done" /\ proc[p].ret = THROWN /\ proc'[p] # proc[p] =>
            proc'[p] = Idle
      ]_vars

\* The owner's addExerciseToWorkout for an exercise outside the catalog has
\* ended with the error.
C21_Witness ==
    \E p \in Procs :
        /\ Returned(p, "addExerciseToWorkout")
        /\ proc[p].ret = THROWN
        /\ workouts # {}

\* The data function each action calls.
DataFunction(action) ==
    CASE action = "createWorkoutAction" -> "createWorkout"
      [] action = "updateWorkoutAction" -> "updateWorkout"
      [] action = "addExerciseToWorkoutAction" -> "addExerciseToWorkout"
      [] action = "removeExerciseFromWorkoutAction" -> "removeExerciseFromWorkout"
      [] action = "createSetAction" -> "createSet"
      [] action = "updateSetAction" -> "updateSet"
      [] action = "deleteSetAction" -> "deleteSet"

\* The steps of an action in the order of its body.
StepsInOrder(action) == <<"auth", "parse", DataFunction(action), "revalidatePath">>

\* What C22 asks of the answer to request p, given whether the data passed
\* the schema: the data function was called if it did, and if it did not the
\* action stopped at the parse with 'Invalid input' and the store as it was.
ValidatedFirst(p, valid) ==
    IF valid
    THEN /\ Len(response'[p].steps) >= 3
         /\ proc'[p].pc = "done"
    ELSE /\ response'[p].steps = <<"auth", "parse">>
         /\ "error" \in DOMAIN response'[p].result
         /\ response'[p].result.error = "Invalid input"
         /\ UNCHANGED <<workouts, workoutExercises, sets, seq, proc>>

C22_StepsAreAPrefixOfTheOrder ==
    \A p \in Procs :
        response[p] # NoResponse =>
            \E n \in 1 .. 4 :
                response[p].steps = SubSeq(StepsInOrder(response[p].action), 1, n)

C22_DataFunctionOnlyAfterValidation ==
    \A p \in Procs, u \in Users :
        /\ Responds(p, "createWorkoutAction") =>
            \A data \in CreateWorkoutRequests :
                createWorkoutAction(p, [userId |-> u], data)
                    => ValidatedFirst(p, CreateWorkoutSchema(data))
        /\ Responds(p, "updateWorkoutAction") =>
            \A data \in UpdateWorkoutRequests :
                updateWorkoutAction(p, [userId |-> u], data)
                    => ValidatedFirst(p, UpdateWorkoutSchema(data))
        /\ Responds(p, "addExerciseToWorkoutAction") =>
            \A data \in AddExerciseRequests :
                addExerciseToWorkoutAction(p, [userId |-> u], data)
                    => ValidatedFirst(p, AddExerciseToWorkoutSchema(data))
        /\ Responds(p, "removeExerciseFromWorkoutAction") =>
            \A data \in RemoveExerciseRequests :
                removeExerciseFromWorkoutAction(p, [userId |-> u], data)
                    => ValidatedFirst(p, RemoveExerciseFromWorkoutSchema(data))
        /\ Responds(p, "createSetAction") =>
            \A data \in CreateSetRequests :
                createSetAction(p, [userId |-> u], data)
                    => ValidatedFirst(p, CreateSetSchema(data))
        /\ Responds(p, "updateSetAction") =>
            \A data \in UpdateSetRequests :
                updateSetAction(p, [userId |-> u], data)
                    => ValidatedFirst(p, UpdateSetSchema(data))
        /\ Responds(p, "deleteSetAction") =>
            \A data \in DeleteSetRequests :
                deleteSetAction(p, [userId |-> u], data)
                    => ValidatedFirst(p, DeleteSetSchema(data))

\* C22: in every server action the steps occur in the order authenticate,
\* validate the input, call the data function, revalidate, return: the data
\* function is called only when the input has passed the schema, and input
\* that fails the schema gets {error: 'Invalid input'} with the store
\* unchanged.
C22_ActionsValidateBeforeTheyCall ==
    []C22_StepsAreAPrefixOfTheOrder /\ [][C22_DataFunctionOnlyAfterValidation]_vars

\* A signed-in owner of a set has just been refused by updateSetAction for
\* input that fails the schema.
C22_Witness ==
    /\ sets # {}
    /\ \E p \in Procs :
        /\ response[p] # NoResponse
        /\ response[p].action = "updateSetAction"
        /\ response[p].steps = <<"auth", "parse">>
        /\ proc[p] = Idle

\* A row, as against null, undefined and an error.
IsRecord(ret) == ret \notin {NULL, UNDEFINED, THROWN}

\* C23: a server action calls revalidatePath only after its data function
\* has returned a record: an action that ends with 'Unauthorized', 'Invalid
\* input', '... not found or unauthorized' or a failure of the store has
\* revalidated no path.
C23_RevalidateOnlyAfterARecord ==
    \A p \in Procs :
        response[p] # NoResponse =>
            /\ "error" \in DOMAIN response[p].result =>
                /\ response[p].revalidated = {}
                /\ \A k \in DOMAIN response[p].steps :
                    response[p].steps[k] # "revalidatePath"
            /\ (response[p].revalidated # {}
                    \/ \E k \in DOMAIN response[p].steps :
                        response[p].steps[k] = "revalidatePath") =>
                /\ proc[p].pc = "done"
                /\ IsRecord(proc[p].ret)
                /\ response[p].steps[Len(response[p].steps)] = "revalidatePath"
                /\ response[p].steps[Len(response[p].steps) - 1] = proc[p].op

\* updateWorkoutAction has just told a signed-in caller that the workout was
\* not found, while there are workouts.
C23_Witness ==
    /\ workouts # {}
    /\ \E p \in Procs :
        /\ response[p] # NoResponse
        /\ response[p].action = "updateWorkoutAction"
        /\ response[p].result = [error |-> "Workout not found or unauthorized"]
        /\ proc[p].pc = "done"
        /\ proc[p].ret = NULL

\* No two sets of a workout exercise share a setNumber, and no two workout
\* exercises of a workout share an order.
SiblingsAreDistinct ==
    /\ \A id \in WorkoutExerciseIds :
        Cardinality({s.setNumber : s \in SetsOf(id)}) = Cardinality(SetsOf(id))
    /\ \A id \in WorkoutIds :
        Cardinality({we.order : we \in WorkoutExercisesOf(id)})
            = Cardinality(WorkoutExercisesOf(id))

\* Every row the step inserts has a sequence value greater than that of
\* every sibling present when the step is taken.
InsertsAboveSiblings ==
    /\ \A s \in sets' :
        (\A t \in sets : t.id # s.id) =>
            \A t \in SetsOf(s.workoutExerciseId) : s.setNumber > t.setNumber
    /\ \A we \in workoutExercises' :
        (\A x \in workoutExercises : x.id # we.id) =>
            \A x \in WorkoutExercisesOf(we.workoutId) : we.order > x.order

\* C24: in serialized execution, after any sequence mixing createSet,
\* updateSet, deleteSet, addExerciseToWorkout and removeExerciseFromWorkout,
\* the setNumbers of each workout exercise are pairwise distinct and so are
\* the orders of each workout, because each insert takes a value greater
\* than that of every sibling present at that moment.
C24_SerializedSequenceValuesStayDistinct ==
    []SiblingsAreDistinct /\ [][InsertsAboveSiblings]_vars

\* After the first set of a workout exercise was deleted, a third was
\* created beside the second.
C24_Witness ==
    \E p \in Procs, id \in WorkoutExerciseIds :
        /\ Returned(p, "createSet")
        /\ proc[p].ret \in SetsOf(id)
        /\ {s.setNumber : s \in SetsOf(id)} = {2, 3}
        /\ proc[p].ret.setNumber = 3

\* C25: referential integrity holds in every reachable state under any
\* interleaving: every set references a workout exercise that exists, and
\* every workout exercise a workout and an exercise that exist; a createSet
\* whose ownership query passed before a concurrent
\* removeExerciseFromWorkout deleted the parent leaves no orphan set.
C25_ReferencesPointAtRows ==
    /\ \A s \in sets : \E we \in workoutExercises : we.id = s.workoutExerciseId
    /\ \A we \in workoutExercises :
        /\ \E w \in workouts : w.id = we.workoutId
        /\ \E e \in exercises : e.id = we.exerciseId

\* A createSet that had passed its ownership query has ended with the error
\* of the store: its workout exercise, once inserted, is gone.
C25_Witness ==
    \E p \in Procs :
        /\ Returned(p, "createSet")
        /\ proc[p].ret = THROWN
        /\ inserted.workoutExercises # {}
        /\ workoutExercises = {}
        /\ sets = {}

\* What C26 asks of a deleteSet of request p that has returned a set: that
\* set and no other row is gone, and every remaining row is as it was.
RemovesExactly(p) ==
    /\ proc'[p].ret \in sets
    /\ sets' = sets \ {proc'[p].ret}
    /\ UNCHANGED <<workouts, workoutExercises>>

\* What C26 asks of a createSet of request p that has returned a set: its
\* setNumber is 1 when its workout exercise had no set, and one more than the
\* largest setNumber there otherwise.
NumberedAfterTheLargest(p) ==
    LET set == proc'[p].ret
        siblings == SetsOf(set.workoutExerciseId)
    IN  IF siblings = {} THEN set.setNumber = 1
        ELSE /\ \E t \in siblings : set.setNumber = t.setNumber + 1
             /\ \A t \in siblings : set.setNumber > t.setNumber

\* C26: deleteSet by the owner removes exactly the one set and does not
\* renumber its siblings: every remaining set keeps its setNumber, and the
\* next createSet into that workout exercise is assigned the largest
\* remaining setNumber plus one, or 1 when no set remains.
C26_DeleteSetLeavesSiblingsAlone ==
    [][\A p \in Procs :
        /\ Returns(p, "deleteSet") /\ IsRecord(proc'[p].ret) => RemovesExactly(p)
        /\ Returns(p, "deleteSet") =>
            \A u \in Users, id \in SetIds :
                OwnsSet(u, id) /\ deleteSet(p, id, u) =>
                    IsRecord(proc'[p].ret) /\ proc'[p].ret.id = id
        /\ Returns(p, "createSet") /\ IsRecord(proc'[p].ret) =>
            NumberedAfterTheLargest(p)
      ]_vars

\* After the second of two sets was deleted, the next createSet got its
\* number: the first set is still number 1 and the new one is number 2.
C26_Witness ==
    \E p \in Procs, id \in WorkoutExerciseIds :
        /\ Returned(p, "createSet")
        /\ proc[p].ret \in SetsOf(id)
        /\ proc[p].ret.setNumber = 2
        /\ {s.setNumber : s \in SetsOf(id)} = {1, 2}
        /\ Cardinality(InsertedSets(id)) = 3

\* What C27 asks of an updateSet of request p that has returned a set: the
\* row with its id is replaced by it, the two differ in reps and weight at
\* most, and no other row of any table has changed.
ChangesOnlyRepsAndWeight(p) ==
    LET set == proc'[p].ret
    IN  /\ \E s \in sets :
            /\ s.id = set.id
            /\ s.workoutExerciseId = set.workoutExerciseId
            /\ s.setNumber = set.setNumber
            /\ s.createdAt = set.createdAt
            /\ sets' = (sets \ {s}) \cup {set}
        /\ UNCHANGED <<workouts, workoutExercises>>

\* C27: updateSet by the owner changes only the reps and the weight of the
\* targeted set: its id, workoutExerciseId, setNumber and createdAt, and
\* every other row of every table, are unchanged.
C27_UpdateSetChangesOnlyRepsAndWeight ==
    [][\A p \in Procs :
        Returns(p, "updateSet") =>
            /\ IsRecord(proc'[p].ret) => ChangesOnlyRepsAndWeight(p)
            /\ \A u \in Users, id \in SetIds, i \in SetInputs :
                OwnsSet(u, id) /\ updateSet(p, id, i.reps, i.weight, u) =>
                    /\ IsRecord(proc'[p].ret)
                    /\ proc'[p].ret.id = id
                    /\ proc'[p].ret.reps = i.reps
                    /\ proc'[p].ret.weight = Numeric(i.weight)
      ]_vars

\* The second set of a workout exercise has just been updated to 6 reps,
\* beside a first set with 8 reps.
C27_Witness ==
    \E p \in Procs, s \in sets :
        /\ Returned(p, "updateSet")
        /\ proc[p].ret \in sets
        /\ proc[p].ret.setNumber = 2
        /\ proc[p].ret.reps = 6
        /\ s.workoutExerciseId = proc[p].ret.workoutExerciseId
        /\ s.setNumber = 1
        /\ s.reps = 8

\* What C28 asks of an updateWorkout of request p that has returned a
\* workout: the row with its id is replaced by it, the two have the same id,
\* userId, completedAt and createdAt, and no other row has changed.
ChangesOnlyTheWorkout(p) ==
    LET workout == proc'[p].ret
    IN  /\ \E w \in workouts :
            /\ w.id = workout.id
            /\ w.userId = workout.userId
            /\ w.completedAt = workout.completedAt
            /\ w.createdAt = workout.createdAt
            /\ workouts' = (workouts \ {w}) \cup {workout}
        /\ UNCHANGED <<workoutExercises, sets>>

\* The workout returned to request p has the fields data supplies and, for a
\* field data omits, the value the row of that id had.
SuppliedFieldsOnly(p, id, data) ==
    LET workout == proc'[p].ret
    IN  /\ IsRecord(workout)
        /\ \E w \in workouts :
            /\ w.id = id
            /\ workout.id = id
            /\ workout.name = IF "name" \in DOMAIN data THEN data.name ELSE w.name
            /\ workout.startedAt =
                    IF "startedAt" \in DOMAIN data THEN data.startedAt ELSE w.startedAt
            /\ workout.updatedAt \in Clock

\* C28: updateWorkout by the owner changes only the fields supplied in the
\* partial data (name, startedAt or both) and updatedAt: a field the call
\* omits keeps its value, and the workout's id, userId, completedAt and
\* createdAt and all other rows are unchanged.
C28_UpdateWorkoutChangesOnlySuppliedFields ==
    [][\A p \in Procs :
        Returns(p, "updateWorkout") =>
            /\ IsRecord(proc'[p].ret) => ChangesOnlyTheWorkout(p)
            /\ \A u \in Users, id \in WorkoutIds, data \in UpdateData :
                OwnsWorkout(u, id) /\ updateWorkout(p, id, u, data) =>
                    SuppliedFieldsOnly(p, id, data)
      ]_vars

\* A workout has just been updated and is named "Push" with start time 0,
\* beside another workout named "Leg Day".
C28_Witness ==
    \E p \in Procs, other \in workouts :
        /\ Returned(p, "updateWorkout")
        /\ proc[p].ret \in workouts
        /\ proc[p].ret.name = "Push"
        /\ proc[p].ret.startedAt = 0
        /\ other.id # proc[p].ret.id
        /\ other.name = "Leg Day"

\* A getWorkoutsForDate call of the dashboard is open.
RequestPending == calls # <<>>

\* Call k settles in this step.
Completes(k) ==
    /\ k \in DOMAIN calls
    /\ calls[k].state = "answered"
    /\ calls' = Remaining(k)

\* C29: in DashboardClient the calendar is disabled while a
\* getWorkoutsForDate request is pending: no day is selected then, so at most
\* one request is open at a time.  When a request completes, the list shown
\* is the one that request fetched, it was fetched for the date displayed,
\* and nothing is left pending; whenever the list is on display (nothing
\* pending) it is the list fetched for the displayed date, each workout of it
\* one of the viewer's on that day.  A response for another date never
\* replaces the list of the displayed date.
C29_OneRequestAndTheListOfTheDisplayedDate ==
    /\ [](/\ Len(calls) <= 1
          /\ dashboard.isPending <=> RequestPending
          /\ ~dashboard.isPending =>
                /\ dashboard.fetchedFor = dashboard.date
                /\ \A i \in DOMAIN dashboard.workouts :
                    /\ dashboard.workouts[i].userId = Viewer
                    /\ startOfDay(dashboard.workouts[i].startedAt)
                            = startOfDay(dashboard.date))
    /\ [][/\ RequestPending =>
                /\ dashboard'.date = dashboard.date
                /\ Len(calls') <= Len(calls)
          /\ \A k \in 1 .. MaxCalls :
                Completes(k) =>
                    /\ dashboard'.workouts = calls[k].data
                    /\ calls[k].newDate = dashboard'.date
                    /\ dashboard'.fetchedFor = dashboard'.date
                    /\ ~dashboard'.isPending]_vars

\* A request for a day other than the one the page opened on has completed
\* and its list, which is not empty, is on display, while the viewer also
\* has a workout on another day.
C29_Witness ==
    /\ ~dashboard.isPending
    /\ dashboard.date # InitialDate
    /\ dashboard.workouts # <<>>
    /\ \E w \in workouts :
        /\ w.userId = Viewer
        /\ startOfDay(w.startedAt) # startOfDay(dashboard.date)

====
